---------------------------- MODULE Spec2Model ----------------------------
(***************************************************************************)
(* Two media-player adapters of a home-automation configuration:           *)
(*   - custom_components/androidtv/media_player.py  (Android TV / Fire TV  *)
(*     over ADB): the adb_decorator availability wrapper, the control      *)
(*     operations and the update() poll cycle;                             *)
(*   - custom_components/samsungtv_custom2/media_player.py (Samsung TV     *)
(*     over WebSocket): send_command, the power-off cooldown and update(). *)
(*                                                                         *)
(* Python values are encoded as follows.  A Python str is a sequence of    *)
(* tokens (each token a TLA+ string standing for a run of characters), so  *)
(* that prefixes and surrounding whitespace can be taken apart.  An        *)
(* optional value is None (the empty tuple) or Some(x) (a 1-tuple).        *)
(* Every operation is one action; the transport calls it makes are         *)
(* recorded, in order and with their outcomes, in the `last` record.       *)
(***************************************************************************)
EXTENDS Integers, Sequences, FiniteSets, TLC

None == <<>>
Some(x) == <<x>>
IsNone(o) == Len(o) = 0
Val(o) == o[1]

\* dict.get(key, default) on a TLA+ function used as a dict.
Get(d, k, default) == IF k \in DOMAIN d THEN d[k] ELSE default

\* Number of entries of a call log whose function name is fn.
CountCalls(calls, fn) == Cardinality({i \in 1..Len(calls) : calls[i][1] = fn})

\* A transport call as logged: <<function, argument (a str), outcome, value
\* returned (<<>> when it is not looked at)>>.
CallRet(fn, arg, out, ret) == <<fn, arg, out, ret>>
Call(fn, arg, out) == CallRet(fn, arg, out, <<>>)

(***************************************************************************)
(*                       ADB adapter (androidtv)                           *)
(***************************************************************************)

VARIABLES
    adb_server_ip,      \* aftv.adb_server_ip is set (ADB-server mode)
    device_class,       \* "androidtv" (AndroidTVDevice) or "firetv" (FireTVDevice)
    turn_on_command,    \* configured override, None or Some(str)
    turn_off_command,   \* configured override, None or Some(str)
    available,          \* self._available
    state,              \* self._state
    current_app,        \* self._current_app
    sources,            \* self._sources
    is_volume_muted,    \* self._is_volume_muted
    volume_level,       \* self._volume_level
    adb_response,       \* self._adb_response
    last,               \* the last operation: name, argument, availability
                        \* before it, transport calls, result, escaped exception
    queried             \* what the last state query of all returned: "never"
                        \* (none was made), "recognized" or "unrecognized"

adbConfig == <<adb_server_ip, device_class, turn_on_command, turn_off_command>>
adbSnapshot == <<state, current_app, sources, is_volume_muted, volume_level>>
adbVars == <<adbConfig, available, adbSnapshot, adb_response, last, queried>>

\* The Samsung adapter's state (SamsungTVDevice).
VARIABLES
    is_ws_connection,   \* self._is_ws_connection (port is 8001 or 8002)
    update_method,      \* self._update_method: "default" or "ping"
    mac,                \* self._mac, None or Some(str)
    app_list,           \* self._app_list, None or Some(name -> appId)
    tv_state,           \* self._state: None, Some(STATE_ON) or Some(STATE_OFF)
    end_of_power_off,   \* self._end_of_power_off: None or Some(time)
    playing,            \* self._playing
    now,                \* dt_util.utcnow(), in seconds
    tv_last             \* the last operation: name, argument, the times it began
                        \* (at) and ended (till), end_of_power_off when it began
                        \* (eopo), the transport calls, what each send_command
                        \* returned, and the exception that escaped

tvConfig == <<is_ws_connection, update_method, mac>>
tvVars == <<tvConfig, app_list, tv_state, end_of_power_off, playing, now, tv_last>>

\* The androidtv platform (setup_platform and its adb_command service).
VARIABLES
    data,               \* hass.data[ANDROIDTV_DOMAIN]: the devices by host, as
                        \* a sequence in the order of insertion
    added,              \* the hosts of the devices given to add_entities
    has_service,        \* the adb_command service is registered
    platform_last       \* the last platform operation: name, argument, the
                        \* exception that escaped, and for a service call the
                        \* devices adb_command was called on, in order, each
                        \* with its transport calls and the value returned

platformVars == <<data, added, has_service, platform_last>>

vars == <<adbVars, tvVars, platformVars>>

DEVICE_ANDROIDTV == "androidtv"
DEVICE_FIRETV == "firetv"

STATE_OFF == "off"
STATE_IDLE == "idle"
STATE_STANDBY == "standby"
STATE_PLAYING == "playing"
STATE_PAUSED == "paused"

ANDROIDTV_STATES ==
    [s \in {"off", "idle", "standby", "playing", "paused"} |->
        CASE s = "off" -> STATE_OFF
          [] s = "idle" -> STATE_IDLE
          [] s = "standby" -> STATE_STANDBY
          [] s = "playing" -> STATE_PLAYING
          [] s = "paused" -> STATE_PAUSED]

\* The exception kinds the two `self.exceptions` tuples name.
PythonAdbExceptions ==
    {"AttributeError", "BrokenPipeError", "TypeError", "ValueError",
     "InvalidChecksumError", "InvalidCommandError", "InvalidResponseError",
     "TcpTimeoutException"}
AdbServerExceptions == {"ConnectionResetError", "RuntimeError"}

\* self.exceptions, chosen in ADBDevice.__init__ by the connection mode.
exceptions == IF ~adb_server_ip THEN PythonAdbExceptions ELSE AdbServerExceptions

\* Exception kinds a transport call is made to raise in the model: one that
\* only the Python-ADB tuple intercepts and one that only the ADB-server
\* tuple intercepts, so each mode sees intercepted and escaping failures.
RaisedKinds == {"TcpTimeoutException", "ConnectionResetError"}
Outcomes == {"ok"} \cup RaisedKinds

\* Built-in tables of the bundled androidtv library (androidtv/constants.py).
APPS == (<<"com.netflix.ninja">> :> <<"Netflix">>)
KEYS == (<<"HOME">> :> <<"3">>) @@ (<<"BACK">> :> <<"4">>)

\* The `apps` configuration option merged onto APPS (dict.update: the
\* configured entry wins).
CONF_APPS == (<<"org.xbmc.kodi">> :> <<"Kodi">>)
app_id_to_name == CONF_APPS @@ APPS

\* {value: key for key, value in app_id_to_name.items()}
app_name_to_id ==
    [n \in {app_id_to_name[k] : k \in DOMAIN app_id_to_name} |->
        CHOOSE k \in DOMAIN app_id_to_name : app_id_to_name[k] = n]

IsSpace(tok) == tok \in {" ", "\t", "\n"}

\* str.lstrip(), str.rstrip() and str.strip() on a token sequence.
RECURSIVE lstrip(_)
lstrip(s) == IF s # <<>> /\ IsSpace(Head(s)) THEN lstrip(Tail(s)) ELSE s

RECURSIVE rstrip(_)
rstrip(s) ==
    IF s # <<>> /\ IsSpace(s[Len(s)]) THEN rstrip(SubSeq(s, 1, Len(s) - 1)) ELSE s

strip(s) == rstrip(lstrip(s))

\* str.startswith("!")
startswith_bang(s) == s # <<>> /\ Head(s) = "!"

\* self as a record of the mutable fields.
Self ==
    [available |-> available, state |-> state, current_app |-> current_app,
     sources |-> sources, is_volume_muted |-> is_volume_muted,
     volume_level |-> volume_level, adb_response |-> adb_response]

\* What running a wrapped method body did: the transport calls made, the
\* exception that left the body ("none" when it returned), the fields as the
\* body left them, and the value returned.
Run(calls, exc, self, result) ==
    [calls |-> calls, exc |-> exc, self |-> self, result |-> result]

\* The end of an operation: the fields are stored and the operation logged.
Finish(name, arg, self, calls, result, raised) ==
    /\ available' = self.available
    /\ state' = self.state
    /\ current_app' = self.current_app
    /\ sources' = self.sources
    /\ is_volume_muted' = self.is_volume_muted
    /\ volume_level' = self.volume_level
    /\ adb_response' = self.adb_response
    /\ last' = [name |-> name, arg |-> arg, avail |-> available,
                 calls |-> calls, result |-> result, raised |-> raised]
    /\ queried' =
         IF \E i \in 1..Len(calls) : calls[i][1] = "update" /\ calls[i][3] = "ok"
         THEN LET native == calls[CHOOSE i \in 1..Len(calls) :
                                     calls[i][1] = "update" /\ calls[i][3] = "ok"][4].state
              IN  IF ~IsNone(native) /\ Val(native) \in DOMAIN ANDROIDTV_STATES
                  THEN "recognized" ELSE "unrecognized"
         ELSE queried
    /\ UNCHANGED <<adbConfig, tvVars, platformVars>>

\* _adb_exception_catcher with the guard on availability removed.
adb_exception_catcher_unguarded(name, arg, override_available, run) ==
    IF run.exc \in exceptions
    THEN Finish(name, arg, [run.self EXCEPT !.available = FALSE],
                Append(run.calls, Call("adb_close", <<>>, "ok")), None, "none")
    ELSE Finish(name, arg, run.self, run.calls, run.result, run.exc)

\* _adb_exception_catcher closing the transport once more than it should.
adb_exception_catcher_close_twice(name, arg, override_available, run) ==
    IF ~available /\ ~override_available
    THEN Finish(name, arg, Self, <<>>, None, "none")
    ELSE IF run.exc \in exceptions
    THEN Finish(name, arg, [run.self EXCEPT !.available = FALSE],
                run.calls \o <<Call("adb_close", <<>>, "ok"), Call("adb_close", <<>>, "ok")>>,
                None, "none")
    ELSE Finish(name, arg, run.self, run.calls, run.result, run.exc)

\* _adb_exception_catcher marking the device available whenever the wrapped
\* method returns.
adb_exception_catcher_marks_available(name, arg, override_available, run) ==
    IF ~available /\ ~override_available
    THEN Finish(name, arg, Self, <<>>, None, "none")
    ELSE IF run.exc \in exceptions
    THEN Finish(name, arg, [run.self EXCEPT !.available = FALSE],
                Append(run.calls, Call("adb_close", <<>>, "ok")), None, "none")
    ELSE IF run.exc = "none"
    THEN Finish(name, arg, [run.self EXCEPT !.available = TRUE], run.calls, run.result,
                run.exc)
    ELSE Finish(name, arg, run.self, run.calls, run.result, run.exc)

\* adb_decorator(override_available)(func): `run` is what func's body does
\* when it is entered from the current state.
adb_exception_catcher(name, arg, override_available, run) ==
    IF ~available /\ ~override_available
    THEN Finish(name, arg, Self, <<>>, None, "none")
    ELSE IF run.exc \in exceptions
    THEN Finish(name, arg, [run.self EXCEPT !.available = FALSE],
                Append(run.calls, Call("adb_close", <<>>, "ok")), None, "none")
    ELSE Finish(name, arg, run.self, run.calls, run.result, run.exc)

\* A body that is one transport call whose value is discarded.
OneCall(fn, arg, out) ==
    Run(<<Call(fn, arg, out)>>, IF out = "ok" THEN "none" ELSE out, Self, None)

(*************************** control operations ****************************)

ADBDevice_media_play ==
    \E out \in Outcomes :
        adb_exception_catcher("media_play", None, FALSE, OneCall("media_play", <<>>, out))

ADBDevice_media_pause ==
    \E out \in Outcomes :
        adb_exception_catcher("media_pause", None, FALSE, OneCall("media_pause", <<>>, out))

ADBDevice_media_play_pause ==
    \E out \in Outcomes :
        adb_exception_catcher("media_play_pause", None, FALSE,
                              OneCall("media_play_pause", <<>>, out))

\* `if self.turn_on_command:` is the truth value of an optional str.
Truthy(optstr) == ~IsNone(optstr) /\ Val(optstr) # <<>>

ADBDevice_turn_on ==
    \E out \in Outcomes :
        adb_exception_catcher("turn_on", None, FALSE,
            IF Truthy(turn_on_command)
            THEN OneCall("adb_shell", Val(turn_on_command), out)
            ELSE OneCall("turn_on", <<>>, out))

ADBDevice_turn_off ==
    \E out \in Outcomes :
        adb_exception_catcher("turn_off", None, FALSE,
            IF Truthy(turn_off_command)
            THEN OneCall("adb_shell", Val(turn_off_command), out)
            ELSE OneCall("turn_off", <<>>, out))

ADBDevice_media_previous_track ==
    \E out \in Outcomes :
        adb_exception_catcher("media_previous_track", None, FALSE,
                              OneCall("media_previous_track", <<>>, out))

ADBDevice_media_next_track ==
    \E out \in Outcomes :
        adb_exception_catcher("media_next_track", None, FALSE,
                              OneCall("media_next_track", <<>>, out))

\* Arguments given to select_source: None stands for a value that is not a str.
SourceArgs ==
    {None, Some(<<"Netflix">>), Some(<<"com.example.raw">>),
     Some(<<"!", "Netflix">>), Some(<<"!", " ", "com.example.raw">>),
     Some(<<"!", " ", "\t", "Netflix">>), Some(<<"!">>)}

\* select_source keeping the whitespace that follows the "!".
select_source_body_no_lstrip(source, out) ==
    IF IsNone(source) THEN Run(<<>>, "none", Self, None)
    ELSE IF ~startswith_bang(Val(source))
    THEN OneCall("launch_app", Get(app_name_to_id, Val(source), Val(source)), out)
    ELSE LET source_ == Tail(Val(source))
         IN  OneCall("stop_app", Get(app_name_to_id, source_, source_), out)

\* The body of select_source (lines 437-442).
select_source_body(source, out) ==
    IF IsNone(source) THEN Run(<<>>, "none", Self, None)
    ELSE IF ~startswith_bang(Val(source))
    THEN OneCall("launch_app", Get(app_name_to_id, Val(source), Val(source)), out)
    ELSE LET source_ == lstrip(Tail(Val(source)))
         IN  OneCall("stop_app", Get(app_name_to_id, source_, source_), out)

ADBDevice_select_source ==
    \E source \in SourceArgs, out \in Outcomes :
        adb_exception_catcher("select_source", source, FALSE,
                              select_source_body(source, out))

\* Commands given to adb_command, what adb_shell may answer (None, or a str
\* with or without surrounding whitespace) and the device's property dict.
CmdArgs == {<<"HOME">>, <<"GET_PROPERTIES">>, <<"KEY_FOO">>}
ShellResponses == {None, Some(<<>>), Some(<<" ", "\n">>), Some(<<" ", "out", "\n">>)}
PropertyDicts == {[serialno |-> "ABC123"]}

\* str() of a property dict.
PyStr(d) == <<"{'serialno': '", d.serialno, "'}">>

\* adb_command sending a key name itself instead of its key event.
adb_command_body_key_verbatim(cmd, out, response, props) ==
    IF cmd \in DOMAIN KEYS
    THEN IF out # "ok"
         THEN Run(<<Call("adb_shell", cmd, out)>>, out, Self, None)
         ELSE Run(<<Call("adb_shell", cmd, out)>>, "none",
                  [Self EXCEPT !.adb_response = None], None)
    ELSE IF cmd = <<"GET_PROPERTIES">>
    THEN IF out # "ok"
         THEN Run(<<Call("get_properties_dict", <<>>, out)>>, out, Self, None)
         ELSE Run(<<CallRet("get_properties_dict", <<>>, out, props)>>, "none",
                  [Self EXCEPT !.adb_response = Some(PyStr(props))], Some(PyStr(props)))
    ELSE IF out # "ok"
         THEN Run(<<Call("adb_shell", cmd, out)>>, out, Self, None)
         ELSE \* isinstance(response, str) and response.strip()
              LET r == IF ~IsNone(response) /\ strip(Val(response)) # <<>>
                       THEN Some(strip(Val(response)))
                       ELSE None
              IN  Run(<<CallRet("adb_shell", cmd, out, response)>>, "none",
                      [Self EXCEPT !.adb_response = r], r)

\* adb_command storing the shell response as it came.
adb_command_body_not_stripped(cmd, out, response, props) ==
    IF cmd \in DOMAIN KEYS
    THEN IF out # "ok"
         THEN Run(<<Call("adb_shell", <<"input keyevent ">> \o KEYS[cmd], out)>>, out, Self, None)
         ELSE Run(<<Call("adb_shell", <<"input keyevent ">> \o KEYS[cmd], out)>>, "none",
                  [Self EXCEPT !.adb_response = None], None)
    ELSE IF cmd = <<"GET_PROPERTIES">>
    THEN IF out # "ok"
         THEN Run(<<Call("get_properties_dict", <<>>, out)>>, out, Self, None)
         ELSE Run(<<CallRet("get_properties_dict", <<>>, out, props)>>, "none",
                  [Self EXCEPT !.adb_response = Some(PyStr(props))], Some(PyStr(props)))
    ELSE IF out # "ok"
         THEN Run(<<Call("adb_shell", cmd, out)>>, out, Self, None)
         ELSE \* isinstance(response, str) and response.strip()
              LET r == IF ~IsNone(response) /\ strip(Val(response)) # <<>>
                       THEN response
                       ELSE None
              IN  Run(<<CallRet("adb_shell", cmd, out, response)>>, "none",
                      [Self EXCEPT !.adb_response = r], r)

\* The body of adb_command (lines 447-466).
adb_command_body(cmd, out, response, props) ==
    IF cmd \in DOMAIN KEYS
    THEN IF out # "ok"
         THEN Run(<<Call("adb_shell", <<"input keyevent ">> \o KEYS[cmd], out)>>, out, Self, None)
         ELSE Run(<<Call("adb_shell", <<"input keyevent ">> \o KEYS[cmd], out)>>, "none",
                  [Self EXCEPT !.adb_response = None], None)
    ELSE IF cmd = <<"GET_PROPERTIES">>
    THEN IF out # "ok"
         THEN Run(<<Call("get_properties_dict", <<>>, out)>>, out, Self, None)
         ELSE Run(<<CallRet("get_properties_dict", <<>>, out, props)>>, "none",
                  [Self EXCEPT !.adb_response = Some(PyStr(props))], Some(PyStr(props)))
    ELSE IF out # "ok"
         THEN Run(<<Call("adb_shell", cmd, out)>>, out, Self, None)
         ELSE \* isinstance(response, str) and response.strip()
              LET r == IF ~IsNone(response) /\ strip(Val(response)) # <<>>
                       THEN Some(strip(Val(response)))
                       ELSE None
              IN  Run(<<CallRet("adb_shell", cmd, out, response)>>, "none",
                      [Self EXCEPT !.adb_response = r], r)

ADBDevice_adb_command ==
    \E cmd \in CmdArgs, out \in Outcomes, response \in ShellResponses,
       props \in PropertyDicts :
        adb_exception_catcher("adb_command", Some(cmd), FALSE,
                              adb_command_body(cmd, out, response, props))

AndroidTVDevice_media_stop ==
    /\ device_class = DEVICE_ANDROIDTV
    /\ \E out \in Outcomes :
        adb_exception_catcher("media_stop", None, FALSE, OneCall("media_stop", <<>>, out))

AndroidTVDevice_mute_volume ==
    /\ device_class = DEVICE_ANDROIDTV
    /\ \E out \in Outcomes :
        adb_exception_catcher("mute_volume", None, FALSE, OneCall("mute_volume", <<>>, out))

\* Volume levels the transport reports (None when it could not tell).
VolumeLevels == {None, Some(0), Some(1)}

volume_body(fn, out, level) ==
    IF out # "ok" THEN OneCall(fn, <<>>, out)
    ELSE Run(<<Call(fn, <<>>, out)>>, "none", [Self EXCEPT !.volume_level = level], None)

AndroidTVDevice_volume_down ==
    /\ device_class = DEVICE_ANDROIDTV
    /\ \E out \in Outcomes, level \in VolumeLevels :
        adb_exception_catcher("volume_down", None, FALSE, volume_body("volume_down", out, level))

AndroidTVDevice_volume_up ==
    /\ device_class = DEVICE_ANDROIDTV
    /\ \E out \in Outcomes, level \in VolumeLevels :
        adb_exception_catcher("volume_up", None, FALSE, volume_body("volume_up", out, level))

FireTVDevice_media_stop ==
    /\ device_class = DEVICE_FIRETV
    /\ \E out \in Outcomes :
        adb_exception_catcher("media_stop", None, FALSE, OneCall("back", <<>>, out))

(******************************* poll cycle ********************************)

\* What aftv.adb_connect() answers: a truth value, or it raises.
ConnectOutcomes == {"True", "False"} \cup RaisedKinds

\* Native state strings aftv.update() reports: the five known ones, one the
\* table does not know, and no state at all.
NativeStates == {Some(s) : s \in DOMAIN ANDROIDTV_STATES} \cup {Some("unknown"), None}

\* A result of aftv.update(get_sources): the native state, the foreground
\* app, the running apps and (used by AndroidTVDevice only) mute and volume.
Report(st, app, running, muted, level) ==
    [state |-> st, current_app |-> app, running_apps |-> running,
     is_volume_muted |-> muted, volume_level |-> level]

NETFLIX == <<"com.netflix.ninja">>
RAW_APP == <<"com.example.raw">>

\* The device reports of the model: every native state of NativeStates, with
\* running-app lists that are None, empty, aliased and partly aliased.
DeviceReports ==
    {Report(Some("off"), None, None, Some(FALSE), Some(0)),
     Report(Some("idle"), Some(NETFLIX), Some(<<>>), Some(FALSE), Some(0)),
     Report(Some("standby"), Some(NETFLIX), Some(<<NETFLIX>>), Some(TRUE), Some(1)),
     Report(Some("playing"), Some(RAW_APP), Some(<<NETFLIX, RAW_APP>>), Some(FALSE), Some(1)),
     Report(Some("paused"), Some(NETFLIX), Some(<<NETFLIX>>), Some(FALSE), Some(0)),
     Report(Some("unknown"), Some(RAW_APP), Some(<<NETFLIX, RAW_APP>>), Some(TRUE), Some(1)),
     Report(None, None, None, Some(FALSE), Some(0))}

\* ANDROIDTV_STATES.get(state)
ha_state(native) ==
    IF ~IsNone(native) /\ Val(native) \in DOMAIN ANDROIDTV_STATES
    THEN Some(ANDROIDTV_STATES[Val(native)])
    ELSE None

\* The source list built for an empty list of running apps too.
sources_of_empty_list(running_apps) ==
    IF ~IsNone(running_apps)
    THEN Some([i \in 1..Len(Val(running_apps)) |->
                  Get(app_id_to_name, Val(running_apps)[i], Val(running_apps)[i])])
    ELSE None

\* [self._app_id_to_name.get(app_id, app_id) for app_id in running_apps],
\* or None when running_apps is None or empty.
sources_of(running_apps) ==
    IF ~IsNone(running_apps) /\ Val(running_apps) # <<>>
    THEN Some([i \in 1..Len(Val(running_apps)) |->
                  Get(app_id_to_name, Val(running_apps)[i], Val(running_apps)[i])])
    ELSE None

\* AndroidTVDevice's state query keeping the old state when the native
\* state is not recognized.
AndroidTVDevice_update_query_keeps_state(self, calls, out, rep) ==
    IF ~self.available THEN Run(calls, "none", self, None)
    ELSE IF out # "ok" THEN Run(Append(calls, Call("update", <<>>, out)), out, self, None)
    ELSE LET st == ha_state(rep.state)
         IN  Run(Append(calls, CallRet("update", <<>>, out, rep)), "none",
                 [self EXCEPT !.state = IF IsNone(st) THEN self.state ELSE st,
                              !.current_app = rep.current_app,
                              !.is_volume_muted = rep.is_volume_muted,
                              !.volume_level = rep.volume_level,
                              !.available = IF IsNone(st) THEN FALSE ELSE self.available,
                              !.sources = sources_of(rep.running_apps)],
                 None)

\* The state query stopping, before the source list, at a native state it
\* does not recognize.
AndroidTVDevice_update_query_stops(self, calls, out, rep) ==
    IF ~self.available THEN Run(calls, "none", self, None)
    ELSE IF out # "ok" THEN Run(Append(calls, Call("update", <<>>, out)), out, self, None)
    ELSE LET st == ha_state(rep.state)
         IN  Run(Append(calls, CallRet("update", <<>>, out, rep)), "none",
                 [self EXCEPT !.state = st,
                              !.current_app = rep.current_app,
                              !.is_volume_muted = rep.is_volume_muted,
                              !.volume_level = rep.volume_level,
                              !.available = IF IsNone(st) THEN FALSE ELSE self.available,
                              !.sources = IF IsNone(st) THEN self.sources
                                          ELSE sources_of(rep.running_apps)],
                 None)

\* The state query closing the transport at a native state it does not
\* recognize.
AndroidTVDevice_update_query_closes(self, calls, out, rep) ==
    IF ~self.available THEN Run(calls, "none", self, None)
    ELSE IF out # "ok" THEN Run(Append(calls, Call("update", <<>>, out)), out, self, None)
    ELSE LET st == ha_state(rep.state)
         IN  Run(IF IsNone(st)
                     THEN calls \o <<CallRet("update", <<>>, out, rep), Call("adb_close", <<>>, "ok")>>
                     ELSE Append(calls, CallRet("update", <<>>, out, rep)), "none",
                 [self EXCEPT !.state = st,
                              !.current_app = rep.current_app,
                              !.is_volume_muted = rep.is_volume_muted,
                              !.volume_level = rep.volume_level,
                              !.available = IF IsNone(st) THEN FALSE ELSE self.available,
                              !.sources = sources_of(rep.running_apps)],
                 None)

\* The state query made although the device is still unavailable.
AndroidTVDevice_update_query_unguarded(self, calls, out, rep) ==
    IF out # "ok" THEN Run(Append(calls, Call("update", <<>>, out)), out, self, None)
    ELSE LET st == ha_state(rep.state)
         IN  Run(Append(calls, CallRet("update", <<>>, out, rep)), "none",
                 [self EXCEPT !.state = st,
                              !.current_app = rep.current_app,
                              !.is_volume_muted = rep.is_volume_muted,
                              !.volume_level = rep.volume_level,
                              !.available = IF IsNone(st) THEN FALSE ELSE self.available,
                              !.sources = sources_of(rep.running_apps)],
                 None)

\* The state query storing the native state as it came.
AndroidTVDevice_update_query_raw_state(self, calls, out, rep) ==
    IF ~self.available THEN Run(calls, "none", self, None)
    ELSE IF out # "ok" THEN Run(Append(calls, Call("update", <<>>, out)), out, self, None)
    ELSE LET st == ha_state(rep.state)
         IN  Run(Append(calls, CallRet("update", <<>>, out, rep)), "none",
                 [self EXCEPT !.state = rep.state,
                              !.current_app = rep.current_app,
                              !.is_volume_muted = rep.is_volume_muted,
                              !.volume_level = rep.volume_level,
                              !.available = IF IsNone(st) THEN FALSE ELSE self.available,
                              !.sources = sources_of(rep.running_apps)],
                 None)

\* The state query clearing state and current app when it fails.
AndroidTVDevice_update_query_clears_on_failure(self, calls, out, rep) ==
    IF ~self.available THEN Run(calls, "none", self, None)
    ELSE IF out # "ok"
    THEN Run(Append(calls, Call("update", <<>>, out)), out,
             [self EXCEPT !.state = None, !.current_app = None], None)
    ELSE LET st == ha_state(rep.state)
         IN  Run(Append(calls, CallRet("update", <<>>, out, rep)), "none",
                 [self EXCEPT !.state = st,
                              !.current_app = rep.current_app,
                              !.is_volume_muted = rep.is_volume_muted,
                              !.volume_level = rep.volume_level,
                              !.available = IF IsNone(st) THEN FALSE ELSE self.available,
                              !.sources = sources_of(rep.running_apps)],
                 None)

\* The part of update() after the reconnect: lines 496-519 (AndroidTVDevice).
AndroidTVDevice_update_query(self, calls, out, rep) ==
    IF ~self.available THEN Run(calls, "none", self, None)
    ELSE IF out # "ok" THEN Run(Append(calls, Call("update", <<>>, out)), out, self, None)
    ELSE LET st == ha_state(rep.state)
         IN  Run(Append(calls, CallRet("update", <<>>, out, rep)), "none",
                 [self EXCEPT !.state = st,
                              !.current_app = rep.current_app,
                              !.is_volume_muted = rep.is_volume_muted,
                              !.volume_level = rep.volume_level,
                              !.available = IF IsNone(st) THEN FALSE ELSE self.available,
                              !.sources = sources_of(rep.running_apps)],
                 None)

\* The part of update() after the reconnect: lines 573-589 (FireTVDevice).
FireTVDevice_update_query(self, calls, out, rep) ==
    IF ~self.available THEN Run(calls, "none", self, None)
    ELSE IF out # "ok" THEN Run(Append(calls, Call("update", <<>>, out)), out, self, None)
    ELSE LET st == ha_state(rep.state)
         IN  Run(Append(calls, CallRet("update", <<>>, out, rep)), "none",
                 [self EXCEPT !.state = st,
                              !.current_app = rep.current_app,
                              !.available = IF IsNone(st) THEN FALSE ELSE self.available,
                              !.sources = sources_of(rep.running_apps)],
                 None)

\* update() with the early return of the Python-ADB mode dropped.
update_body_no_early_return(conn, out, rep) ==
    IF ~available
    THEN IF conn \notin {"True", "False"}
         THEN Run(<<Call("adb_connect", <<>>, conn)>>, conn, Self, None)
         ELSE LET self1 == [Self EXCEPT !.available = (conn = "True")]
                  calls1 == <<Call("adb_connect", <<>>, conn)>>
              IN  IF device_class = DEVICE_ANDROIDTV
                  THEN AndroidTVDevice_update_query(self1, calls1, out, rep)
                  ELSE FireTVDevice_update_query(self1, calls1, out, rep)
    ELSE IF device_class = DEVICE_ANDROIDTV
         THEN AndroidTVDevice_update_query(Self, <<>>, out, rep)
         ELSE FireTVDevice_update_query(Self, <<>>, out, rep)

\* update() not storing what adb_connect answered.
update_body_reconnect_not_stored(conn, out, rep) ==
    IF ~available
    THEN IF conn \notin {"True", "False"}
         THEN Run(<<Call("adb_connect", <<>>, conn)>>, conn, Self, None)
         ELSE LET self1 == Self
                  calls1 == <<Call("adb_connect", <<>>, conn)>>
              IN  IF ~adb_server_ip THEN Run(calls1, "none", self1, None)
                  ELSE IF device_class = DEVICE_ANDROIDTV
                  THEN AndroidTVDevice_update_query(self1, calls1, out, rep)
                  ELSE FireTVDevice_update_query(self1, calls1, out, rep)
    ELSE IF device_class = DEVICE_ANDROIDTV
         THEN AndroidTVDevice_update_query(Self, <<>>, out, rep)
         ELSE FireTVDevice_update_query(Self, <<>>, out, rep)

\* update() returning after the reconnect in ADB-server mode too.
update_body_always_defers(conn, out, rep) ==
    IF ~available
    THEN IF conn \notin {"True", "False"}
         THEN Run(<<Call("adb_connect", <<>>, conn)>>, conn, Self, None)
         ELSE LET self1 == [Self EXCEPT !.available = (conn = "True")]
                  calls1 == <<Call("adb_connect", <<>>, conn)>>
              IN  Run(calls1, "none", self1, None)
    ELSE IF device_class = DEVICE_ANDROIDTV
         THEN AndroidTVDevice_update_query(Self, <<>>, out, rep)
         ELSE FireTVDevice_update_query(Self, <<>>, out, rep)

\* The body of update(): reconnect when unavailable (lines 486-494 and
\* 563-571), then the state query of the device's class.
update_body(conn, out, rep) ==
    IF ~available
    THEN IF conn \notin {"True", "False"}
         THEN Run(<<Call("adb_connect", <<>>, conn)>>, conn, Self, None)
         ELSE LET self1 == [Self EXCEPT !.available = (conn = "True")]
                  calls1 == <<Call("adb_connect", <<>>, conn)>>
              IN  IF ~adb_server_ip THEN Run(calls1, "none", self1, None)
                  ELSE IF device_class = DEVICE_ANDROIDTV
                  THEN AndroidTVDevice_update_query(self1, calls1, out, rep)
                  ELSE FireTVDevice_update_query(self1, calls1, out, rep)
    ELSE IF device_class = DEVICE_ANDROIDTV
         THEN AndroidTVDevice_update_query(Self, <<>>, out, rep)
         ELSE FireTVDevice_update_query(Self, <<>>, out, rep)

AndroidTVDevice_update ==
    /\ device_class = DEVICE_ANDROIDTV
    /\ \E conn \in ConnectOutcomes, out \in Outcomes, rep \in DeviceReports :
        adb_exception_catcher("update", None, TRUE, update_body(conn, out, rep))

FireTVDevice_update ==
    /\ device_class = DEVICE_FIRETV
    /\ \E conn \in ConnectOutcomes, out \in Outcomes, rep \in DeviceReports :
        adb_exception_catcher("update", None, TRUE, update_body(conn, out, rep))

(***************************** specification ******************************)

\* Configured power commands: none, or a shell command.
PowerCommands == {None, Some(<<"input keyevent 26">>)}

\* The (turn_on_command, turn_off_command) configurations of the model: each
\* option is set in one and left out in the other.
PowerConfigs ==
    {pc \in PowerCommands \X PowerCommands : IsNone(pc[1]) # IsNone(pc[2])}

\* The androidtv platform has not been set up: hass.data has no device of
\* it and its service is not registered.
NoPlatform ==
    /\ data = <<>>
    /\ added = <<>>
    /\ has_service = FALSE
    /\ platform_last = [name |-> "init", arg |-> None, raised |-> "none", log |-> <<>>]

\* No Samsung TV is configured: its variables keep these values.
NoSamsungDevice ==
    /\ is_ws_connection = TRUE
    /\ update_method = "default"
    /\ mac = None
    /\ app_list = None
    /\ tv_state = None
    /\ end_of_power_off = None
    /\ playing = TRUE
    /\ now = 0
    /\ tv_last = [name |-> "init", arg |-> None, at |-> 0, till |-> 0,
                  eopo |-> None, calls |-> <<>>, returns |-> <<>>, raised |-> "none"]

\* ADBDevice.__init__ / AndroidTVDevice.__init__ (setup_platform creates a
\* device only when the transport is connected).
AdbInit ==
    /\ adb_server_ip \in BOOLEAN
    /\ device_class \in {DEVICE_ANDROIDTV, DEVICE_FIRETV}
    /\ \E pc \in PowerConfigs :
        /\ turn_on_command = pc[1]
        /\ turn_off_command = pc[2]
    /\ available = TRUE
    /\ state = None
    /\ current_app = None
    /\ sources = None
    /\ is_volume_muted = None
    /\ volume_level = None
    /\ adb_response = None
    /\ last = [name |-> "init", arg |-> None, avail |-> TRUE, calls |-> <<>>,
               result |-> None, raised |-> "none"]
    /\ queried = "never"
    /\ NoSamsungDevice
    /\ NoPlatform

AdbNext ==
    \/ ADBDevice_media_play
    \/ ADBDevice_media_pause
    \/ ADBDevice_media_play_pause
    \/ ADBDevice_turn_on
    \/ ADBDevice_turn_off
    \/ ADBDevice_media_previous_track
    \/ ADBDevice_media_next_track
    \/ ADBDevice_select_source
    \/ ADBDevice_adb_command
    \/ AndroidTVDevice_update
    \/ AndroidTVDevice_media_stop
    \/ AndroidTVDevice_mute_volume
    \/ AndroidTVDevice_volume_down
    \/ AndroidTVDevice_volume_up
    \/ FireTVDevice_update
    \/ FireTVDevice_media_stop

SpecAdb == AdbInit /\ [][AdbNext]_vars

\* A poll cycle: the scheduler of the platform calls update() at every scan
\* interval, for as long as the device exists.
Poll == AndroidTVDevice_update \/ FireTVDevice_update

\* The operations followed over time: the poll cycles and, of the control
\* operations (all of them meet the transport through the same wrapper),
\* those of the base class and of each device class named here.
AdbLiveNext ==
    \/ Poll
    \/ ADBDevice_media_play
    \/ ADBDevice_turn_on
    \/ AndroidTVDevice_volume_up
    \/ FireTVDevice_media_stop

\* The ADB adapter with its poll cycles kept coming.
SpecAdbLive == AdbInit /\ [][AdbLiveNext]_vars /\ WF_vars(Poll)

(************************* properties: ADB adapter *************************)

\* The control operations: every wrapped method but update().
ControlOps ==
    {"media_play", "media_pause", "media_play_pause", "media_stop",
     "media_previous_track", "media_next_track", "volume_up", "volume_down",
     "mute_volume", "turn_on", "turn_off", "select_source", "adb_command"}

\* The last operation made a transport call that raised an exception kind
\* the adapter intercepts.
FailedIntercepted == \E i \in 1..Len(last.calls) : last.calls[i][3] \in exceptions

\* Index of the first transport call of the last operation that raised.
FirstFailure ==
    CHOOSE i \in 1..Len(last.calls) :
        /\ last.calls[i][3] \in RaisedKinds
        /\ \A j \in 1..(i - 1) : last.calls[j][3] \notin RaisedKinds

\* C1: a control operation invoked while the device is unavailable makes no
\* transport call, returns None, raises nothing and leaves it unavailable.
C1_UnavailableControlIsNoOp ==
    (last.name \in ControlOps /\ ~last.avail) =>
        /\ last.calls = <<>>
        /\ last.result = None
        /\ last.raised = "none"
        /\ ~available

C1_Witness ==
    /\ last.name = "turn_on"
    /\ ~last.avail
    /\ last.calls = <<>>

\* C2: when a transport call of a wrapped operation raises an intercepted
\* exception kind, the operation closes the transport exactly once, right
\* after the failing call (which is not made again), sets availability to
\* False, returns None and lets no exception escape.
C2_InterceptedFailureClosesOnce ==
    FailedIntercepted =>
        /\ CountCalls(last.calls, "adb_close") = 1
        /\ last.calls[Len(last.calls)][1] = "adb_close"
        /\ FirstFailure = Len(last.calls) - 1
        /\ CountCalls(last.calls, last.calls[FirstFailure][1]) = 1
        /\ ~available
        /\ last.result = None
        /\ last.raised = "none"

C2_Witness ==
    /\ last.name = "update"
    /\ last.avail
    /\ FailedIntercepted
    /\ CountCalls(last.calls, "adb_close") = 1

\* The last operation was a poll cycle that started unavailable.
PollFromUnavailable == last.name = "update" /\ ~last.avail

PollGotUnrecognized(l) ==
    /\ l.name = "update"
    /\ \E i \in 1..Len(l.calls) :
        /\ l.calls[i][1] = "update"
        /\ l.calls[i][3] = "ok"
        /\ IsNone(ha_state(l.calls[i][4].state))

\* C5 as stated: after a state query that returns an unrecognized native
\* state the device is unavailable and the exposed state is the one it had
\* before the poll cycle.
C5_Original_StateKept ==
    [][PollGotUnrecognized(last') => (~available' /\ state' = state)]_vars

\* C5 (amended): after a state query that returns an unrecognized native
\* state the device is unavailable and the exposed state is None.
C5_UnrecognizedClearsState ==
    PollGotUnrecognized(last) => (~available /\ state = None)

C5_Witness ==
    /\ PollGotUnrecognized(last)
    /\ last.avail
    /\ ~available
    /\ state = None
    /\ current_app = Some(RAW_APP)

\* The last operation was a select_source of a str, begun while available.
SelectedStr == last.name = "select_source" /\ last.avail /\ ~IsNone(last.arg)

\* id is what the reverse alias table gives for name: the id whose display
\* name it is, or name itself when no id has that display name.
ReverseResolved(name, id) ==
    IF \E k \in DOMAIN app_id_to_name : app_id_to_name[k] = name
    THEN id \in DOMAIN app_id_to_name /\ app_id_to_name[id] = name
    ELSE id = name

\* arg is "!" followed by whitespace only and then by rest, which does not
\* begin with whitespace.
BangThenRest(arg, rest) ==
    /\ (rest # <<>> => ~IsSpace(Head(rest)))
    /\ \E n \in 0..(Len(arg) - 1) :
        /\ arg = <<"!">> \o SubSeq(arg, 2, n + 1) \o rest
        /\ \A i \in 2..(n + 1) : IsSpace(arg[i])

\* C13: select_source of a str, while available, makes exactly one transport
\* call, made first.  For an argument that begins with "!" it is stop_app,
\* given the reverse-resolved rest of the argument after the "!" and the
\* whitespace that follows it, and launch_app is not called; for any other
\* argument it is launch_app, given the reverse-resolved argument, and
\* stop_app is not called.
C13_SourceSigil ==
    SelectedStr =>
        /\ CountCalls(last.calls, "launch_app") + CountCalls(last.calls, "stop_app") = 1
        /\ last.calls[1][1] \in {"launch_app", "stop_app"}
        /\ Len(last.calls) <= 2
        /\ (Len(last.calls) = 2 => last.calls[2][1] = "adb_close")
        /\ IF Val(last.arg) # <<>> /\ Head(Val(last.arg)) = "!"
           THEN /\ last.calls[1][1] = "stop_app"
                /\ \E rest \in {SubSeq(Val(last.arg), i, Len(Val(last.arg))) :
                                   i \in 2..(Len(Val(last.arg)) + 1)} :
                    /\ BangThenRest(Val(last.arg), rest)
                    /\ ReverseResolved(rest, last.calls[1][2])
           ELSE /\ last.calls[1][1] = "launch_app"
                /\ ReverseResolved(Val(last.arg), last.calls[1][2])

C13_Witness ==
    /\ SelectedStr
    /\ last.arg = Some(<<"!", " ", "com.example.raw">>)
    /\ last.calls = <<Call("stop_app", <<"com.example.raw">>, "ok")>>
    /\ available

\* The last operation was an adb_command begun while available.
CommandedAvailable == last.name = "adb_command" /\ last.avail

\* C14: adb_command, while available, takes exactly one of three paths.  A
\* command that is a key name of KEYS is sent as the shell command
\* "input keyevent <key>"; "GET_PROPERTIES" sends no shell command, asks for
\* the property dict and returns its str(); every other command, a name
\* like "KEY_FOO" that KEYS does not have included, is sent as a shell
\* command as it is.
C14_RawCommandPaths ==
    CommandedAvailable =>
        /\ CountCalls(last.calls, "adb_shell")
              + CountCalls(last.calls, "get_properties_dict") = 1
        /\ Len(last.calls) <= 2
        /\ (Len(last.calls) = 2 => last.calls[2][1] = "adb_close")
        /\ IF Val(last.arg) \in DOMAIN KEYS
           THEN /\ last.calls[1][1] = "adb_shell"
                /\ last.calls[1][2] = <<"input keyevent ">> \o KEYS[Val(last.arg)]
           ELSE IF Val(last.arg) = <<"GET_PROPERTIES">>
           THEN /\ last.calls[1][1] = "get_properties_dict"
                /\ (last.calls[1][3] = "ok" =>
                       /\ last.result = Some(PyStr(last.calls[1][4]))
                       /\ adb_response = last.result)
           ELSE /\ last.calls[1][1] = "adb_shell"
                /\ last.calls[1][2] = Val(last.arg)

C14_Witness ==
    /\ CommandedAvailable
    /\ last.arg = Some(<<"KEY_FOO">>)
    /\ last.calls[1][1] = "adb_shell"
    /\ last.calls[1][2] = <<"KEY_FOO">>
    /\ last.calls[1][3] = "ok"
    /\ Len(last.calls) = 1

\* A str that is empty or made of whitespace only.
Blank(str) == \A i \in 1..Len(str) : IsSpace(str[i])

\* inner is str without the whitespace at its two ends.
StrippedOf(str, inner) ==
    /\ inner # <<>>
    /\ ~IsSpace(inner[1])
    /\ ~IsSpace(inner[Len(inner)])
    /\ \E i \in 1..Len(str) :
        /\ inner = SubSeq(str, i, i + Len(inner) - 1)
        /\ \A j \in 1..Len(str) : (j < i \/ j >= i + Len(inner)) => IsSpace(str[j])

QueryReport(l) ==
    l.calls[CHOOSE i \in 1..Len(l.calls) :
                l.calls[i][1] = "update" /\ l.calls[i][3] = "ok"][4]

\* The last operation was a poll cycle whose state query returned a native
\* state that ANDROIDTV_STATES knows.
PollGotRecognized(l) ==
    /\ l.name = "update"
    /\ \E i \in 1..Len(l.calls) :
        /\ l.calls[i][1] = "update"
        /\ l.calls[i][3] = "ok"
        /\ ~IsNone(ha_state(l.calls[i][4].state))

\* srcs is the source list of the running apps `running`: None when there
\* are none, and otherwise their display names in the same order, an app
\* without a display name standing as its id.
SourceListOf(running, srcs) ==
    IF IsNone(running) \/ Val(running) = <<>>
    THEN srcs = None
    ELSE /\ ~IsNone(srcs)
         /\ Len(Val(srcs)) = Len(Val(running))
         /\ \A i \in 1..Len(Val(running)) :
                IF Val(running)[i] \in DOMAIN app_id_to_name
                THEN Val(srcs)[i] = app_id_to_name[Val(running)[i]]
                ELSE Val(srcs)[i] = Val(running)[i]

\* C16: after a poll cycle whose state query returns a recognized native
\* state, the source list is None when the list of running apps is empty,
\* and otherwise has the same length and order, each id replaced by its
\* display name, or kept when it has none.
C16_SourcesMapped ==
    PollGotRecognized(last) => SourceListOf(QueryReport(last).running_apps, sources)

C16_Witness ==
    /\ PollGotRecognized(last)
    /\ QueryReport(last).running_apps = Some(<<NETFLIX, RAW_APP>>)
    /\ sources = Some(<<app_id_to_name[NETFLIX], RAW_APP>>)

\* C17 as stated: a poll cycle whose state query returns an unrecognized
\* native state leaves the source list as it was.
C17_Original_SourcesKept ==
    [][PollGotUnrecognized(last') => sources' = sources]_vars

\* C17 (amended): a poll cycle whose state query returns an unrecognized
\* native state does not stop there: the source list, like the current app,
\* is replaced by what that query returned.
C17_UnrecognizedStillSetsSources ==
    PollGotUnrecognized(last) =>
        /\ SourceListOf(QueryReport(last).running_apps, sources)
        /\ current_app = QueryReport(last).current_app

C17_Witness ==
    /\ PollGotUnrecognized(last)
    /\ last.avail
    /\ device_class = DEVICE_ANDROIDTV
    /\ sources = Some(<<app_id_to_name[NETFLIX], RAW_APP>>)
    /\ ~available

\* C18 as stated: an unrecognized native state closes the transport and
\* makes the device unavailable, as an intercepted failure does.
C18_Original_UnrecognizedCloses ==
    PollGotUnrecognized(last) =>
        (CountCalls(last.calls, "adb_close") = 1 /\ ~available)

\* C18 (amended): an unrecognized native state makes the device unavailable
\* but, unlike an intercepted failure, does not close the transport: the
\* state query is the last transport call of the poll cycle.
C18_UnrecognizedDoesNotClose ==
    PollGotUnrecognized(last) =>
        /\ ~available
        /\ CountCalls(last.calls, "adb_close") = 0
        /\ last.calls[Len(last.calls)][1] = "update"
        /\ last.raised = "none"

C18_Witness ==
    /\ PollGotUnrecognized(last)
    /\ last.avail
    /\ device_class = DEVICE_ANDROIDTV
    /\ Len(last.calls) = 1
    /\ last.calls[1][1] = "update"
    /\ ~available

\* The reconnect of the poll cycle l failed: adb_connect, its first call,
\* answered False or raised an exception kind the adapter intercepts.
ReconnectFailed(l) ==
    /\ l.name = "update"
    /\ ~l.avail
    /\ Len(l.calls) >= 1
    /\ l.calls[1][1] = "adb_connect"
    /\ l.calls[1][3] \in {"False"} \cup exceptions

\* C19: a poll cycle that starts unavailable and whose reconnect fails makes
\* no state query and leaves state, current app, source list, volume level
\* and mute flag as they were, and the device unavailable.
C19_FailedReconnectChangesNothing ==
    [][(ReconnectFailed(last') /\ ~available) =>
          /\ CountCalls(last'.calls, "update") = 0
          /\ adbSnapshot' = adbSnapshot
          /\ ~available']_vars

C19_Witness ==
    /\ ReconnectFailed(last)
    /\ adb_server_ip
    /\ last.calls[1][3] = "False"
    /\ ~available
    /\ state = Some(STATE_PLAYING)
    /\ sources = Some(<<app_id_to_name[NETFLIX], RAW_APP>>)

\* In the operation l every transport call succeeded, adb_connect answered
\* True and the state query, if made, returned a recognized native state.
AllWell(l) ==
    \A i \in 1..Len(l.calls) :
        /\ l.calls[i][3] \in {"ok", "True"}
        /\ (l.calls[i][1] = "update" => ~IsNone(ha_state(l.calls[i][4].state)))

\* The device is available and the last operation was a poll cycle that
\* queried its state.
AvailableAndQueried == available /\ PollGotRecognized(last)

\* C20: unavailability at run time is retried for ever.  A poll cycle that
\* starts unavailable begins with a reconnect attempt, however many cycles
\* failed before it; and, poll cycles kept coming, if from some time on the
\* transport works (adb_connect succeeds, calls succeed, the device reports
\* a recognized state), then an unavailable device becomes available and has
\* its state queried.
C20_ReconnectRetriedForever ==
    /\ [](PollFromUnavailable =>
            (Len(last.calls) >= 1 /\ last.calls[1][1] = "adb_connect"))
    /\ (<>[][AllWell(last')]_vars => (~available ~> AvailableAndQueried))

C20_Witness ==
    /\ PollFromUnavailable
    /\ adb_server_ip
    /\ Len(last.calls) = 2
    /\ last.calls[1] = Call("adb_connect", <<>>, "True")
    /\ AvailableAndQueried
    /\ state = Some(STATE_PLAYING)

\* The states of the adapter's vocabulary.
Vocabulary == {STATE_OFF, STATE_IDLE, STATE_STANDBY, STATE_PLAYING, STATE_PAUSED}

\* C23 as stated: whenever the device is available and a state query has
\* been made, the state is one of the five of the vocabulary.
C23_Original_AvailableStateInVocabulary ==
    (available /\ queried # "never") => state \in {Some(v) : v \in Vocabulary}

\* C23 (amended): a poll cycle whose state query returns a recognized native
\* state sets the state to the value of the vocabulary that corresponds to
\* it and leaves the device available; and whenever the device is available
\* after a state query, the state is one of the five of the vocabulary, or
\* it is None, which it is when the last state query returned an
\* unrecognized native state and the device has reconnected since.
C23_StateInVocabularyOrNone ==
    /\ (PollGotRecognized(last) =>
            /\ available
            /\ state = Some(ANDROIDTV_STATES[Val(QueryReport(last).state)])
            /\ Val(state) = Val(QueryReport(last).state)
            /\ Val(state) \in Vocabulary)
    /\ (queried = "recognized" => state \in {Some(v) : v \in Vocabulary})
    /\ (queried = "unrecognized" => state = None)
    /\ (queried = "never" => state = None)

C23_Witness ==
    /\ available
    /\ queried = "unrecognized"
    /\ state = None
    /\ PollFromUnavailable
    /\ last.calls = <<Call("adb_connect", <<>>, "True")>>

\* C24: availability goes from False to True only in a poll cycle whose
\* reconnect succeeded (adb_connect, its first call, answered True); no
\* control operation and no call that failed ever sets it to True.
C24_AvailableOnlyByReconnect ==
    [][(~available /\ available') =>
          /\ last'.name = "update"
          /\ ~last'.avail
          /\ Len(last'.calls) >= 1
          /\ last'.calls[1] = Call("adb_connect", <<>>, "True")]_vars

C24_Witness ==
    /\ last.name = "update"
    /\ ~last.avail
    /\ available
    /\ ~adb_server_ip
    /\ device_class = DEVICE_FIRETV
    /\ queried = "recognized"
    /\ last.calls = <<Call("adb_connect", <<>>, "True")>>

\* The state query of the poll cycle l raised an exception kind that the
\* adapter intercepts.
QueryFailedIntercepted(l) ==
    /\ l.name = "update"
    /\ \E i \in 1..Len(l.calls) : l.calls[i][1] = "update" /\ l.calls[i][3] \in exceptions

\* C25: when the state query of a poll cycle fails with an intercepted
\* exception, state, current app, source list, mute flag and volume level
\* keep the values they had before the cycle; the device becomes
\* unavailable and the transport is closed, once, after the query.
C25_FailedQueryKeepsSnapshot ==
    [][QueryFailedIntercepted(last') =>
          /\ adbSnapshot' = adbSnapshot
          /\ adb_response' = adb_response
          /\ ~available'
          /\ CountCalls(last'.calls, "adb_close") = 1
          /\ last'.calls[Len(last'.calls)][1] = "adb_close"
          /\ last'.calls[Len(last'.calls) - 1][1] = "update"]_vars

C25_Witness ==
    /\ QueryFailedIntercepted(last)
    /\ last.avail
    /\ device_class = DEVICE_ANDROIDTV
    /\ ~available
    /\ state = Some(STATE_PLAYING)
    /\ current_app = Some(RAW_APP)
    /\ volume_level = Some(1)

\* C26: with an ADB server, a poll cycle that starts unavailable and whose
\* reconnect succeeds makes the state query in that same cycle; without
\* one (Python ADB) it ends after the reconnect, and the state query is the
\* first call of the poll cycle that follows.
C26_ServerModeQueriesSameCycle ==
    /\ []((PollFromUnavailable /\ Len(last.calls) >= 1
              /\ last.calls[1] = Call("adb_connect", <<>>, "True")) =>
            IF adb_server_ip
            THEN Len(last.calls) >= 2 /\ last.calls[2][1] = "update"
            ELSE Len(last.calls) = 1)
    /\ [][(/\ PollFromUnavailable
           /\ ~adb_server_ip
           /\ last'.name = "update"
           /\ last'.avail)
          => (Len(last'.calls) >= 1 /\ last'.calls[1][1] = "update")]_vars

C26_Witness ==
    /\ PollFromUnavailable
    /\ adb_server_ip
    /\ device_class = DEVICE_ANDROIDTV
    /\ Len(last.calls) = 2
    /\ last.calls[1] = Call("adb_connect", <<>>, "True")
    /\ last.calls[2][1] = "update"
    /\ last.calls[2][3] = "ok"
    /\ state = Some(STATE_PAUSED)

(***************************************************************************)
(*                  Samsung adapter (samsungtv_custom2)                    *)
(***************************************************************************)

STATE_ON == "on"

\* timedelta(seconds=15) in turn_off.
PowerOffSeconds == 15

\* The clock advances in steps of TickStep seconds, up to MaxTime.
TickStep == 5
MaxTime == 20

\* json.loads(DEFAULT_SOURCE_LIST)
source_list == (<<"TV">> :> <<"KEY_TV">>) @@ (<<"HDMI">> :> <<"KEY_HDMI">>)

\* The installed applications (CONF_APP_LIST, or what _gen_installed_app_list
\* builds from remote.app_list()).
InstalledApps == (<<"Netflix">> :> <<"11101200001">>)

\* The exception kinds send_command's handlers name.
RetryKinds == {"ConnectionResetError", "AttributeError", "BrokenPipeError"}
WebSocketTimeoutException == "WebSocketTimeoutException"
OSError == "OSError"

\* What one transport send is made to do in the model.
SendOutcomes == {"ok", "BrokenPipeError", WebSocketTimeoutException, OSError}

\* How the transport behaves during one operation: the outcomes of its
\* successive sends, taken in turn and over again.
SendPlans == {<<a, b>> : a \in SendOutcomes, b \in SendOutcomes}
Rotate(plan) == Append(Tail(plan), Head(plan))

\* The plans that differ for an operation that calls send_command once: the
\* second outcome is looked at only when the first send is retried.
SinglePlans == {plan \in SendPlans : plan[1] \notin {"BrokenPipeError"} => plan[2] = "ok"}

\* Seconds a send takes: a send that times out has waited for the
\* transport's timeout; the others end at once.
SendSeconds(out) == IF out = WebSocketTimeoutException THEN TickStep ELSE 0

\* self, as far as send_command reads and writes it.
TvSelf == [state |-> tv_state, end_of_power_off |-> end_of_power_off]

\* _power_off_in_progress() counting the deadline itself as in progress.
power_off_in_progress_inclusive(self, t) ==
    ~IsNone(self.end_of_power_off) /\ Val(self.end_of_power_off) >= t

\* _power_off_in_progress() at time t.
power_off_in_progress(self, t) ==
    ~IsNone(self.end_of_power_off) /\ Val(self.end_of_power_off) > t

\* The retry loop closing nothing before it sends again.
RECURSIVE send_attempts_no_close(_, _, _, _, _, _)
send_attempts_no_close(left, fn, payload, plan, calls, t) ==
    IF left = 0 THEN [end |-> "exhausted", calls |-> calls, plan |-> plan, t |-> t]
    ELSE LET out == Head(plan)
             sent == Append(calls, Call(fn, payload, out))
             t1 == t + SendSeconds(out)
         IN  IF out = "ok"
             THEN [end |-> "ok", calls |-> sent, plan |-> Rotate(plan), t |-> t1]
             ELSE IF out \in RetryKinds
             THEN send_attempts_no_close(left - 1, fn, payload, Rotate(plan), sent, t1)
             ELSE [end |-> out, calls |-> sent, plan |-> Rotate(plan), t |-> t1]

\* The retry loop of send_command (lines 207-222): `left` sends remain.  It
\* ends "ok" at the first send that succeeds, "exhausted" when every send
\* raised a kind of RetryKinds (the transport closed after each), or with
\* the kind that left the loop.
RECURSIVE send_attempts(_, _, _, _, _, _)
send_attempts(left, fn, payload, plan, calls, t) ==
    IF left = 0 THEN [end |-> "exhausted", calls |-> calls, plan |-> plan, t |-> t]
    ELSE LET out == Head(plan)
             sent == Append(calls, Call(fn, payload, out))
             t1 == t + SendSeconds(out)
         IN  IF out = "ok"
             THEN [end |-> "ok", calls |-> sent, plan |-> Rotate(plan), t |-> t1]
             ELSE IF out \in RetryKinds
             THEN send_attempts(left - 1, fn, payload, Rotate(plan),
                                Append(sent, Call("close", <<>>, "ok")), t1)
             ELSE [end |-> out, calls |-> sent, plan |-> Rotate(plan), t |-> t1]

\* send_command without the cooldown guard of lines 201-203.
send_command_unguarded(self, t, payload, command_type, retry_count, plan) ==
    LET fn == IF command_type = "run_app" THEN "run_app" ELSE "send_key"
        loop == send_attempts(retry_count + 1, fn, payload, plan, <<>>, t)
        handled ==
            IF loop.end \in {"ok", "exhausted"}
            THEN [state |-> Some(STATE_ON), calls |-> loop.calls]
            ELSE IF loop.end = WebSocketTimeoutException
            THEN [state |-> Some(STATE_ON),
                  calls |-> Append(loop.calls, Call("close", <<>>, "ok"))]
            ELSE [state |-> Some(STATE_OFF),
                  calls |-> Append(loop.calls, Call("close", <<>>, "ok"))]
        self1 == [self EXCEPT !.state = handled.state]
        self2 == IF power_off_in_progress(self1, loop.t)
                 THEN [self1 EXCEPT !.state = Some(STATE_OFF)]
                 ELSE self1
    IN  [self |-> self2, calls |-> handled.calls, result |-> TRUE,
         plan |-> loop.plan, t |-> loop.t]

\* send_command without the cooldown check of lines 236-237 at its end.
send_command_state_not_forced(self, t, payload, command_type, retry_count, plan) ==
    IF power_off_in_progress(self, t) /\ payload \notin {<<"KEY_POWER">>, <<"KEY_POWEROFF">>}
    THEN [self |-> self, calls |-> <<>>, result |-> FALSE, plan |-> plan, t |-> t]
    ELSE LET fn == IF command_type = "run_app" THEN "run_app" ELSE "send_key"
             loop == send_attempts(retry_count + 1, fn, payload, plan, <<>>, t)
             handled ==
                 IF loop.end \in {"ok", "exhausted"}
                 THEN [state |-> Some(STATE_ON), calls |-> loop.calls]
                 ELSE IF loop.end = WebSocketTimeoutException
                 THEN [state |-> Some(STATE_ON),
                       calls |-> Append(loop.calls, Call("close", <<>>, "ok"))]
                 ELSE [state |-> Some(STATE_OFF),
                       calls |-> Append(loop.calls, Call("close", <<>>, "ok"))]
         IN  [self |-> [self EXCEPT !.state = handled.state], calls |-> handled.calls,
              result |-> TRUE, plan |-> loop.plan, t |-> loop.t]

\* send_command whose cooldown guard lets only KEY_POWEROFF through.
send_command_power_key_refused(self, t, payload, command_type, retry_count, plan) ==
    IF power_off_in_progress(self, t) /\ payload \notin {<<"KEY_POWEROFF">>}
    THEN [self |-> self, calls |-> <<>>, result |-> FALSE, plan |-> plan, t |-> t]
    ELSE send_command_unguarded(self, t, payload, command_type, retry_count, plan)

\* send_command leaving the state "off" when every attempt was used up.
send_command_exhausted_off(self, t, payload, command_type, retry_count, plan) ==
    IF power_off_in_progress(self, t) /\ payload \notin {<<"KEY_POWER">>, <<"KEY_POWEROFF">>}
    THEN [self |-> self, calls |-> <<>>, result |-> FALSE, plan |-> plan, t |-> t]
    ELSE LET fn == IF command_type = "run_app" THEN "run_app" ELSE "send_key"
             loop == send_attempts(retry_count + 1, fn, payload, plan, <<>>, t)
             handled ==
                 IF loop.end = "ok"
                 THEN [state |-> Some(STATE_ON), calls |-> loop.calls]
                 ELSE IF loop.end = "exhausted"
                 THEN [state |-> Some(STATE_OFF), calls |-> loop.calls]
                 ELSE IF loop.end = WebSocketTimeoutException
                 THEN [state |-> Some(STATE_ON),
                       calls |-> Append(loop.calls, Call("close", <<>>, "ok"))]
                 ELSE [state |-> Some(STATE_OFF),
                       calls |-> Append(loop.calls, Call("close", <<>>, "ok"))]
             self1 == [self EXCEPT !.state = handled.state]
             self2 == IF power_off_in_progress(self1, loop.t)
                      THEN [self1 EXCEPT !.state = Some(STATE_OFF)]
                      ELSE self1
         IN  [self |-> self2, calls |-> handled.calls, result |-> TRUE,
              plan |-> loop.plan, t |-> loop.t]

\* send_command(payload, command_type, retry_count) entered at time t with
\* the transport following `plan`.
send_command(self, t, payload, command_type, retry_count, plan) ==
    IF power_off_in_progress(self, t) /\ payload \notin {<<"KEY_POWER">>, <<"KEY_POWEROFF">>}
    THEN [self |-> self, calls |-> <<>>, result |-> FALSE, plan |-> plan, t |-> t]
    ELSE LET fn == IF command_type = "run_app" THEN "run_app" ELSE "send_key"
             loop == send_attempts(retry_count + 1, fn, payload, plan, <<>>, t)
             handled ==
                 IF loop.end \in {"ok", "exhausted"}
                 THEN [state |-> Some(STATE_ON), calls |-> loop.calls]
                 ELSE IF loop.end = WebSocketTimeoutException
                 THEN [state |-> Some(STATE_ON),
                       calls |-> Append(loop.calls, Call("close", <<>>, "ok"))]
                 ELSE [state |-> Some(STATE_OFF),
                       calls |-> Append(loop.calls, Call("close", <<>>, "ok"))]
             self1 == [self EXCEPT !.state = handled.state]
             self2 == IF power_off_in_progress(self1, loop.t)
                      THEN [self1 EXCEPT !.state = Some(STATE_OFF)]
                      ELSE self1
         IN  [self |-> self2, calls |-> handled.calls, result |-> TRUE,
              plan |-> loop.plan, t |-> loop.t]

\* The default value of send_command's retry_count parameter.
DefaultRetryCount == 1

\* The end of an operation that began at time `now` and ended at time t.
TvFinish(name, arg, self, playing2, app_list2, t, calls, returns, raised) ==
    /\ t <= MaxTime
    /\ tv_state' = self.state
    /\ end_of_power_off' = self.end_of_power_off
    /\ playing' = playing2
    /\ app_list' = app_list2
    /\ now' = t
    /\ tv_last' = [name |-> name, arg |-> arg, at |-> now, till |-> t,
                   eopo |-> end_of_power_off, calls |-> calls,
                   returns |-> returns, raised |-> raised]
    /\ UNCHANGED <<tvConfig, adbVars, platformVars>>

\* An operation that is one send_command(payload) call.
SendKey(name, payload, playing2) ==
    \E plan \in SinglePlans :
        \E r \in {send_command(TvSelf, now, payload, "send_key", DefaultRetryCount, plan)} :
            TvFinish(name, None, r.self, playing2, app_list, r.t, r.calls,
                     <<r.result>>, "none")

\* What requests.get does: it answers, or raises.
PingOutcomes == {"ok", "ConnectionError"}

\* The body of update() (lines 183-197) entered at time t: the outcomes
\* it can have, one for each answer of the ping or of the transport.
update_body_tv(self, t) ==
    IF is_ws_connection /\ update_method = "ping"
    THEN {[self |-> [self EXCEPT !.state = IF ping = "ok" THEN Some(STATE_ON)
                                                         ELSE Some(STATE_OFF)],
           calls |-> <<Call("requests.get", <<>>, ping)>>, returns |-> <<>>, t |-> t] :
             ping \in PingOutcomes}
    ELSE {[self |-> r.self, calls |-> r.calls, returns |-> <<r.result>>, t |-> r.t] :
             r \in {send_command(self, t, <<"KEY">>, "send_key", DefaultRetryCount, plan) :
                       plan \in SinglePlans}}

\* update() behind util.Throttle: the call is skipped when the throttle
\* holds it back, and runs the body otherwise.
throttled_update(self, t) ==
    {[self |-> self, calls |-> <<>>, returns |-> <<>>, t |-> t]} \cup update_body_tv(self, t)

SamsungTVDevice_update ==
    \E r \in throttled_update(TvSelf, now) :
        TvFinish("update", None, r.self, playing, app_list, r.t, r.calls, r.returns, "none")

SamsungTVDevice_turn_on ==
    IF Truthy(mac)
    THEN \E r \in throttled_update(TvSelf, now) :
            TvFinish("turn_on", None, r.self, playing, app_list, r.t,
                     <<Call("send_magic_packet", Val(mac), "ok")>> \o r.calls,
                     r.returns, "none")
    ELSE \E plan \in SinglePlans :
            \E r \in {send_command(TvSelf, now, <<"KEY_POWERON">>, "send_key",
                                  DefaultRetryCount, plan)} :
                TvFinish("turn_on", None, r.self, playing, app_list, r.t, r.calls,
                         <<r.result>>, "none")

\* What the final close() of turn_off does: it returns, or raises OSError.
CloseOutcomes == {"ok", OSError}

\* turn_off() keeping the deadline of a power-off that is still in progress.
turn_off_body_keeps_deadline(self, t, plan, closed) ==
    LET self1 == IF power_off_in_progress(self, t) THEN self
                 ELSE [self EXCEPT !.end_of_power_off = Some(t + PowerOffSeconds)]
        r == send_command(self1, t,
                          IF is_ws_connection THEN <<"KEY_POWER">> ELSE <<"KEY_POWEROFF">>,
                          "send_key", DefaultRetryCount, plan)
    IN  [self |-> r.self, calls |-> Append(r.calls, Call("close", <<>>, closed)),
         returns |-> <<r.result>>, t |-> r.t, raised |-> "none"]

\* turn_off() setting the deadline only after the key was sent.
turn_off_body_deadline_last(self, t, plan, closed) ==
    LET r == send_command(self, t,
                          IF is_ws_connection THEN <<"KEY_POWER">> ELSE <<"KEY_POWEROFF">>,
                          "send_key", DefaultRetryCount, plan)
    IN  [self |-> [r.self EXCEPT !.end_of_power_off = Some(t + PowerOffSeconds)],
         calls |-> Append(r.calls, Call("close", <<>>, closed)),
         returns |-> <<r.result>>, t |-> r.t, raised |-> "none"]

\* turn_off() entered at time t (lines 315-326).
turn_off_body(self, t, plan, closed) ==
    LET self1 == [self EXCEPT !.end_of_power_off = Some(t + PowerOffSeconds)]
        r == send_command(self1, t,
                          IF is_ws_connection THEN <<"KEY_POWER">> ELSE <<"KEY_POWEROFF">>,
                          "send_key", DefaultRetryCount, plan)
    IN  [self |-> r.self, calls |-> Append(r.calls, Call("close", <<>>, closed)),
         returns |-> <<r.result>>, t |-> r.t, raised |-> "none"]

SamsungTVDevice_turn_off ==
    \E plan \in SinglePlans, closed \in CloseOutcomes :
        \E r \in {turn_off_body(TvSelf, now, plan, closed)} :
            TvFinish("turn_off", None, r.self, playing, app_list, r.t, r.calls,
                     r.returns, r.raised)

SamsungTVDevice_volume_up == SendKey("volume_up", <<"KEY_VOLUP">>, playing)

SamsungTVDevice_volume_down == SendKey("volume_down", <<"KEY_VOLDOWN">>, playing)

SamsungTVDevice_mute_volume == SendKey("mute_volume", <<"KEY_MUTE">>, playing)

SamsungTVDevice_media_play_pause ==
    IF playing THEN SendKey("media_play_pause", <<"KEY_PAUSE">>, FALSE)
    ELSE SendKey("media_play_pause", <<"KEY_PLAY">>, TRUE)

SamsungTVDevice_media_play == SendKey("media_play", <<"KEY_PLAY">>, TRUE)

SamsungTVDevice_media_pause == SendKey("media_pause", <<"KEY_PAUSE">>, FALSE)

SamsungTVDevice_media_next_track == SendKey("media_next_track", <<"KEY_FF">>, playing)

SamsungTVDevice_media_previous_track ==
    SendKey("media_previous_track", <<"KEY_REWIND">>, playing)

\* send_command for each of `jobs` (<<payload, command_type>> pairs) in turn,
\* each awaited before the next is submitted.
RECURSIVE send_all(_, _, _, _, _, _)
send_all(self, t, jobs, plan, calls, returns) ==
    IF jobs = <<>> THEN [self |-> self, calls |-> calls, returns |-> returns, t |-> t]
    ELSE LET r == send_command(self, t, Head(jobs)[1], Head(jobs)[2],
                               DefaultRetryCount, plan)
         IN  send_all(r.self, r.t, Tail(jobs), r.plan,
                      calls \o r.calls, Append(returns, r.result))

\* The plans that differ for an operation that submits `jobs`.
PlansFor(jobs) ==
    IF jobs = <<>> THEN {<<"ok", "ok">>}
    ELSE IF Len(jobs) = 1 THEN SinglePlans
    ELSE SendPlans

MEDIA_TYPE_CHANNEL == "channel"
MEDIA_TYPE_APP == "app"
MEDIA_TYPE_KEY == "send_key"

Digits == {"0", "1", "2", "3", "4", "5", "6", "7", "8", "9"}

\* cv.positive_int(media_id) accepts a str of decimal digits (one token each).
positive_int_ok(media_id) ==
    media_id # <<>> /\ \A i \in 1..Len(media_id) : media_id[i] \in Digits

\* The send_command calls async_play_media submits (lines 369-397).
play_media_jobs(media_type, media_id) ==
    IF media_type = MEDIA_TYPE_CHANNEL
    THEN IF ~positive_int_ok(media_id) THEN <<>>
         ELSE [i \in 1..Len(media_id) |-> <<(<<"KEY_", media_id[i]>>), "send_key">>]
              \o << <<(<<"KEY_ENTER">>), "send_key">> >>
    ELSE IF media_type = MEDIA_TYPE_APP THEN << <<media_id, "run_app">> >>
    ELSE IF media_type = MEDIA_TYPE_KEY THEN << <<media_id, "send_key">> >>
    ELSE <<>>

\* The play_media requests of the model: <<media_type, media_id>>.
MediaRequests ==
    {<<MEDIA_TYPE_CHANNEL, <<"7">>>>, <<MEDIA_TYPE_CHANNEL, <<"x">>>>,
     <<MEDIA_TYPE_APP, <<"11101200001">>>>,
     <<MEDIA_TYPE_KEY, <<"KEY_HOME">>>>, <<MEDIA_TYPE_KEY, <<"KEY_POWER">>>>,
     <<"music", <<"x">>>>}

SamsungTVDevice_async_play_media ==
    \E req \in MediaRequests :
      \E plan \in PlansFor(play_media_jobs(req[1], req[2])) :
        \E r \in {send_all(TvSelf, now, play_media_jobs(req[1], req[2]), plan, <<>>, <<>>)} :
            TvFinish("play_media", Some(<<req[1]>> \o req[2]), r.self, playing, app_list,
                     r.t, r.calls, r.returns, "none")

\* The sources select_source is asked for.
SourceNames == {<<"HDMI">>, <<"Netflix">>, <<"RAW_ID">>}

\* async_select_source sending a source it does not know as a key.
select_source_jobs_passthrough(source) ==
    IF source \in DOMAIN source_list THEN << <<source_list[source], "send_key">> >>
    ELSE IF ~IsNone(app_list) /\ source \in DOMAIN Val(app_list)
    THEN << <<Val(app_list)[source], "run_app">> >>
    ELSE << <<source, "send_key">> >>

\* The send_command calls async_select_source submits (lines 401-406);
\* `source in self._app_list` raises TypeError while _app_list is None.
select_source_jobs(source) ==
    IF source \in DOMAIN source_list THEN << <<source_list[source], "send_key">> >>
    ELSE IF ~IsNone(app_list) /\ source \in DOMAIN Val(app_list)
    THEN << <<Val(app_list)[source], "run_app">> >>
    ELSE <<>>

SamsungTVDevice_async_select_source ==
    \E source \in SourceNames :
      \E plan \in PlansFor(select_source_jobs(source)) :
        \E r \in {send_all(TvSelf, now, select_source_jobs(source), plan, <<>>, <<>>)} :
            TvFinish("select_source", Some(source), r.self, playing, app_list, r.t,
                     r.calls, r.returns,
                     IF source \notin DOMAIN source_list /\ IsNone(app_list)
                     THEN "TypeError" ELSE "none")

\* The source_list property (lines 283-292): it builds the app list from
\* remote.app_list() the first time it is read without one.
SamsungTVDevice_source_list ==
    IF IsNone(app_list)
    THEN TvFinish("source_list", None, TvSelf, playing, Some(InstalledApps), now,
                  <<Call("app_list", <<>>, "ok")>>, <<>>, "none")
    ELSE TvFinish("source_list", None, TvSelf, playing, app_list, now, <<>>, <<>>, "none")

\* Time passes between operations.
Tick ==
    /\ now + TickStep <= MaxTime
    /\ now' = now + TickStep
    /\ UNCHANGED <<tvConfig, app_list, tv_state, end_of_power_off, playing, tv_last, adbVars,
                   platformVars>>

\* No ADB device is configured: its variables keep these values.
NoAdbDevice ==
    /\ adb_server_ip = FALSE
    /\ device_class = DEVICE_ANDROIDTV
    /\ turn_on_command = None
    /\ turn_off_command = None
    /\ available = TRUE
    /\ state = None
    /\ current_app = None
    /\ sources = None
    /\ is_volume_muted = None
    /\ volume_level = None
    /\ adb_response = None
    /\ last = [name |-> "init", arg |-> None, avail |-> TRUE, calls |-> <<>>,
               result |-> None, raised |-> "none"]
    /\ queried = "never"

\* The configurations of the model, <<is_ws_connection, update_method, mac>>:
\* both connection kinds with both update methods, turn_on by key
\* (no mac) and, under either way of updating, by wake-on-LAN.
TvConfigs ==
    {<<TRUE, "default", None>>,
     <<TRUE, "ping", Some(<<"aa:bb:cc:dd:ee:ff">>)>>,
     <<FALSE, "default", Some(<<"aa:bb:cc:dd:ee:ff">>)>>,
     <<FALSE, "ping", None>>}

\* SamsungTVDevice.__init__ (lines 141-161), for each configuration.
TvInit ==
    /\ \E cfg \in TvConfigs :
        /\ is_ws_connection = cfg[1]
        /\ update_method = cfg[2]
        /\ mac = cfg[3]
    /\ app_list \in {None, Some(InstalledApps)}
    /\ tv_state = None
    /\ end_of_power_off = None
    /\ playing = TRUE
    /\ now = 0
    /\ tv_last = [name |-> "init", arg |-> None, at |-> 0, till |-> 0,
                  eopo |-> None, calls |-> <<>>, returns |-> <<>>, raised |-> "none"]
    /\ NoAdbDevice
    /\ NoPlatform

TvNext ==
    \/ SamsungTVDevice_update
    \/ SamsungTVDevice_turn_on
    \/ SamsungTVDevice_turn_off
    \/ SamsungTVDevice_volume_up
    \/ SamsungTVDevice_volume_down
    \/ SamsungTVDevice_mute_volume
    \/ SamsungTVDevice_media_play_pause
    \/ SamsungTVDevice_media_play
    \/ SamsungTVDevice_media_pause
    \/ SamsungTVDevice_media_next_track
    \/ SamsungTVDevice_media_previous_track
    \/ SamsungTVDevice_async_play_media
    \/ SamsungTVDevice_async_select_source
    \/ SamsungTVDevice_source_list
    \/ Tick

SpecTv == TvInit /\ [][TvNext]_vars

(*********************** properties: Samsung adapter ***********************)

PowerKeys == {<<"KEY_POWER">>, <<"KEY_POWEROFF">>}

\* The sends (send_key or run_app) among the calls of an operation.
IsSend(call) == call[1] \in {"send_key", "run_app"}
SendIndexes(calls) == {i \in 1..Len(calls) : IsSend(calls[i])}
FailedSends(calls) == {i \in SendIndexes(calls) : calls[i][3] # "ok"}

\* A power-off was in progress when the last operation began.
CooldownAtEntry == ~IsNone(tv_last.eopo) /\ Val(tv_last.eopo) > tv_last.at

\* A power-off is in progress now.
InCooldown == ~IsNone(end_of_power_off) /\ Val(end_of_power_off) > now

\* The operations that are one send_command call.
SingleSendOps ==
    {"volume_up", "volume_down", "mute_volume", "media_play_pause", "media_play",
     "media_pause", "media_next_track", "media_previous_track"}

\* C3 as stated: a command whose send fails closes the transport once, does
\* not send a second time and leaves the device marked as not usable.
C3_Original_FailedSendNotRetried ==
    (tv_last.name \in SingleSendOps /\ FailedSends(tv_last.calls) # {}) =>
        /\ CountCalls(tv_last.calls, "close") = 1
        /\ Cardinality(SendIndexes(tv_last.calls)) = 1
        /\ tv_state = Some(STATE_OFF)

\* C3 (amended): in a command call every send that fails is followed at once
\* by one close of the transport, and by nothing else; a send that fails
\* with a WebSocket timeout or a plain OSError is the last of the call; a
\* send that fails with a connection reset, a broken pipe or an attribute
\* error is made again, retry_count (1) times at most.  The adapter has no
\* availability flag: the call returns True, and the state is "off" after an
\* OSError and "on" after a timeout unless the power-off cooldown forces "off".
C3_FailedSendClosesAndMayRetry ==
    (tv_last.name \in SingleSendOps /\ FailedSends(tv_last.calls) # {}) =>
        /\ \A i \in FailedSends(tv_last.calls) :
            /\ i < Len(tv_last.calls)
            /\ tv_last.calls[i + 1] = Call("close", <<>>, "ok")
            /\ (tv_last.calls[i][3] \notin RetryKinds => i + 1 = Len(tv_last.calls))
        /\ CountCalls(tv_last.calls, "close") = Cardinality(FailedSends(tv_last.calls))
        /\ Cardinality(SendIndexes(tv_last.calls)) <= DefaultRetryCount + 1
        /\ tv_last.calls[1][3] \in RetryKinds \/ Cardinality(SendIndexes(tv_last.calls)) = 1
        /\ tv_last.returns = <<TRUE>>
        /\ tv_last.raised = "none"
        /\ (tv_last.calls[Len(tv_last.calls) - 1][3] = OSError => tv_state = Some(STATE_OFF))
        /\ (/\ tv_last.calls[Len(tv_last.calls) - 1][3] = WebSocketTimeoutException
            /\ ~(~IsNone(tv_last.eopo) /\ Val(tv_last.eopo) > tv_last.till)
            => tv_state = Some(STATE_ON))

C3_Witness ==
    /\ tv_last.name = "volume_up"
    /\ tv_last.calls = <<Call("send_key", <<"KEY_VOLUP">>, "BrokenPipeError"),
                         Call("close", <<>>, "ok"),
                         Call("send_key", <<"KEY_VOLUP">>, WebSocketTimeoutException),
                         Call("close", <<>>, "ok")>>
    /\ tv_state = Some(STATE_ON)

\* C6 as stated: a power-off call made while an earlier power-off is still
\* in progress leaves the cooldown deadline where the earlier call set it.
C6_Original_SecondPowerOffKeepsDeadline ==
    (tv_last.name = "turn_off" /\ CooldownAtEntry) => end_of_power_off = tv_last.eopo

\* C6 (amended): after every power-off call, also one made at a time t2 while
\* an earlier power-off is in progress, the deadline is t2 + 15 s: the call
\* restarts the window (the deadline is that of the first call only when
\* t2 = t1).
C6_PowerOffRestartsDeadline ==
    tv_last.name = "turn_off" =>
        /\ end_of_power_off = Some(tv_last.at + PowerOffSeconds)
        /\ (CooldownAtEntry /\ tv_last.at + PowerOffSeconds > Val(tv_last.eopo)
                => end_of_power_off # tv_last.eopo)

C6_Witness ==
    /\ tv_last.name = "turn_off"
    /\ CooldownAtEntry
    /\ tv_last.eopo = Some(PowerOffSeconds)
    /\ tv_last.at = TickStep
    /\ end_of_power_off = Some(TickStep + PowerOffSeconds)

\* C7 as stated: an operation other than turn_on and turn_off that begins
\* during the cooldown makes no send_key or run_app call.
C7_Original_NonPowerCommandSendsNothing ==
    (tv_last.name \notin {"turn_on", "turn_off"} /\ CooldownAtEntry) =>
        SendIndexes(tv_last.calls) = {}

\* C7 (amended): an operation that begins during the cooldown sends no key
\* and runs no app, unless the key it is given is KEY_POWER or KEY_POWEROFF
\* itself (a play-media key request for KEY_POWER passes the guard, which
\* looks at the payload only): each send_command it makes for another
\* payload returns False without a transport call.
C7_CooldownSendsPowerKeysOnly ==
    CooldownAtEntry =>
        /\ \A i \in SendIndexes(tv_last.calls) : tv_last.calls[i][2] \in PowerKeys
        /\ (tv_last.name \in SingleSendOps =>
                tv_last.calls = <<>> /\ tv_last.returns = <<FALSE>>)
        /\ (tv_last.name = "update" => SendIndexes(tv_last.calls) = {})
        /\ (tv_last.name \in {"play_media", "select_source"}
                /\ Len(Val(tv_last.arg)) > 0
                /\ Val(tv_last.arg)[Len(Val(tv_last.arg))] # "KEY_POWER"
                => SendIndexes(tv_last.calls) = {})

C7_Witness ==
    /\ CooldownAtEntry
    /\ tv_last.name = "play_media"
    /\ tv_last.arg = Some(<<MEDIA_TYPE_CHANNEL, "7">>)
    /\ tv_last.calls = <<>>
    /\ tv_last.returns = <<FALSE, FALSE>>

\* C8 as stated: while a power-off is in progress the state reads "off",
\* whatever the update method.
C8_Original_OffDuringCooldown == InCooldown => tv_state = Some(STATE_OFF)

\* C8 (amended): while a power-off is in progress the state reads "off" after
\* every operation, provided update() does not use the ping method (which
\* sets the state from the ping's answer, "on" when it is answered, without
\* looking at the cooldown).
C8_OffDuringCooldownUnlessPing ==
    (InCooldown /\ ~(is_ws_connection /\ update_method = "ping")) =>
        tv_state = Some(STATE_OFF)

C8_Witness ==
    /\ InCooldown
    /\ ~(is_ws_connection /\ update_method = "ping")
    /\ tv_last.name = "play_media"
    /\ tv_last.at > 0
    /\ tv_last.calls = <<Call("send_key", <<"KEY_POWER">>, "ok")>>
    /\ tv_state = Some(STATE_OFF)

\* The calls that switch the power: a power key sent, or the magic packet.
IsPowerCall(call) ==
    \/ call[1] = "send_key" /\ call[2] \in PowerKeys \cup {<<"KEY_POWERON">>}
    \/ call[1] = "send_magic_packet"

\* C9 as stated: turn_on and turn_off called during the cooldown both make
\* their power call.
C9_Original_PowerCommandsNotSuppressed ==
    (tv_last.name \in {"turn_on", "turn_off"} /\ CooldownAtEntry) =>
        \E i \in 1..Len(tv_last.calls) : IsPowerCall(tv_last.calls[i])

\* C9 (amended): turn_off called during the cooldown still sends its power
\* key (KEY_POWER, or KEY_POWEROFF on a port that is not a WebSocket one),
\* and turn_on with a MAC configured still sends its magic packet; turn_on
\* without a MAC (KEY_POWERON) is suppressed: no transport call is made.
C9_PowerOffAndWakeOnLanPass ==
    CooldownAtEntry =>
        /\ (tv_last.name = "turn_off" =>
                /\ tv_last.calls[1][1] = "send_key"
                /\ tv_last.calls[1][2] =
                       (IF is_ws_connection THEN <<"KEY_POWER">> ELSE <<"KEY_POWEROFF">>)
                /\ tv_last.returns = <<TRUE>>)
        /\ (tv_last.name = "turn_on" /\ Truthy(mac) =>
                tv_last.calls[1] = Call("send_magic_packet", Val(mac), "ok"))
        /\ (tv_last.name = "turn_on" /\ ~Truthy(mac) =>
                tv_last.calls = <<>> /\ tv_last.returns = <<FALSE>>)

C9_Witness ==
    /\ CooldownAtEntry
    /\ tv_last.name = "turn_off"
    /\ is_ws_connection
    /\ tv_last.at > 0
    /\ tv_last.calls[1] = Call("send_key", <<"KEY_POWER">>, "ok")

\* C10: turn_off sets the deadline to now + 15 s before it sends the power
\* key (the state is forced to "off" by the new deadline when the send ends
\* within it), the key is sent although that deadline is in force, the
\* transport is closed last, and an OSError of that close neither escapes
\* nor changes the deadline.
C10_PowerOffOrder ==
    tv_last.name = "turn_off" =>
        /\ end_of_power_off = Some(tv_last.at + PowerOffSeconds)
        /\ tv_last.calls[1][1] = "send_key"
        /\ tv_last.calls[1][2] \in PowerKeys
        /\ tv_last.returns = <<TRUE>>
        /\ tv_last.calls[Len(tv_last.calls)][1] = "close"
        /\ SendIndexes(tv_last.calls) \subseteq 1..(Len(tv_last.calls) - 1)
        /\ tv_last.raised = "none"
        /\ (tv_last.till < tv_last.at + PowerOffSeconds => tv_state = Some(STATE_OFF))

C10_Witness ==
    /\ tv_last.name = "turn_off"
    /\ tv_last.calls = <<Call("send_key", <<"KEY_POWER">>, "ok"),
                         Call("close", <<>>, OSError)>>
    /\ tv_last.raised = "none"
    /\ end_of_power_off = Some(tv_last.at + PowerOffSeconds)
    /\ tv_state = Some(STATE_OFF)

\* The power-off deadline had been set and had passed when the last
\* operation began.
CooldownOverAtEntry == ~IsNone(tv_last.eopo) /\ Val(tv_last.eopo) <= tv_last.at

\* The outcome of the last send of the last operation.
LastSendOutcome ==
    tv_last.calls[CHOOSE i \in SendIndexes(tv_last.calls) :
                      \A j \in SendIndexes(tv_last.calls) : j <= i][3]

\* C11: the cooldown ends by the passage of time alone.  Only turn_off ever
\* changes the deadline, and it is never cleared; an operation that begins
\* at a time now >= deadline (now = deadline included) has none of its
\* send_command calls rejected, each of them reaches the transport, and the
\* state it leaves is the transport's answer ("on" unless the send ended in
\* an OSError), not a forced "off".
C11_CooldownEndsByTimeAlone ==
    /\ []((CooldownOverAtEntry /\ tv_last.name # "turn_off") =>
            /\ end_of_power_off = tv_last.eopo
            /\ \A i \in 1..Len(tv_last.returns) : tv_last.returns[i] = TRUE
            /\ Cardinality(SendIndexes(tv_last.calls)) >= Len(tv_last.returns)
            /\ (tv_last.name \in SingleSendOps =>
                    /\ tv_last.returns = <<TRUE>>
                    /\ IsSend(tv_last.calls[1])
                    /\ tv_last.calls[1][2] \notin PowerKeys)
            /\ (tv_last.returns # <<>> /\ LastSendOutcome # OSError =>
                    tv_state = Some(STATE_ON)))
    /\ [][end_of_power_off' # end_of_power_off =>
            /\ tv_last'.name = "turn_off"
            /\ end_of_power_off' = Some(now + PowerOffSeconds)]_vars

C11_Witness ==
    /\ tv_last.name = "volume_up"
    /\ tv_last.eopo = Some(PowerOffSeconds)
    /\ tv_last.at = PowerOffSeconds
    /\ end_of_power_off = Some(PowerOffSeconds)
    /\ tv_last.calls = <<Call("send_key", <<"KEY_VOLUP">>, "ok")>>
    /\ tv_last.returns = <<TRUE>>
    /\ tv_state = Some(STATE_ON)

\* The last operation was a select_source that began outside the cooldown.
SelectedOutsideCooldown == tv_last.name = "select_source" /\ ~CooldownAtEntry

\* C12 as stated: outside the cooldown, selecting a name of the source table
\* sends the id it is mapped to, selecting a string of no table sends that
\* string itself, and the lookup never fails.
C12_Original_UnknownSourcePassedThrough ==
    (/\ SelectedOutsideCooldown
     /\ \/ Val(tv_last.arg) \in DOMAIN source_list
        \/ IsNone(app_list)
        \/ Val(tv_last.arg) \notin DOMAIN Val(app_list)) =>
        /\ tv_last.raised = "none"
        /\ tv_last.calls # <<>>
        /\ IsSend(tv_last.calls[1])
        /\ tv_last.calls[1][2] = Get(source_list, Val(tv_last.arg), Val(tv_last.arg))

\* C12 (amended): outside the cooldown, selecting a name of the source table
\* sends, as a key, the id it is mapped to; selecting a name of the
\* application table runs the application it is mapped to; selecting a
\* string of neither table makes no transport call (the source is
\* unsupported); and while the application table has not been built, a name
\* that is not in the source table makes the lookup raise TypeError.
C12_UnknownSourceNotSent ==
    SelectedOutsideCooldown =>
        IF Val(tv_last.arg) \in DOMAIN source_list
        THEN /\ tv_last.raised = "none"
             /\ tv_last.returns = <<TRUE>>
             /\ \A i \in SendIndexes(tv_last.calls) :
                    /\ tv_last.calls[i][1] = "send_key"
                    /\ tv_last.calls[i][2] = source_list[Val(tv_last.arg)]
             /\ SendIndexes(tv_last.calls) # {}
        ELSE IF IsNone(app_list)
        THEN tv_last.raised = "TypeError" /\ tv_last.calls = <<>>
        ELSE IF Val(tv_last.arg) \in DOMAIN Val(app_list)
        THEN /\ tv_last.raised = "none"
             /\ tv_last.returns = <<TRUE>>
             /\ \A i \in SendIndexes(tv_last.calls) :
                    /\ tv_last.calls[i][1] = "run_app"
                    /\ tv_last.calls[i][2] = Val(app_list)[Val(tv_last.arg)]
             /\ SendIndexes(tv_last.calls) # {}
        ELSE /\ tv_last.raised = "none"
             /\ tv_last.calls = <<>>
             /\ tv_last.returns = <<>>

C12_Witness ==
    /\ SelectedOutsideCooldown
    /\ tv_last.arg = Some(<<"RAW_ID">>)
    /\ app_list = Some(InstalledApps)
    /\ tv_last.calls = <<>>
    /\ tv_last.raised = "none"

\* C27: a command call that begins outside the cooldown makes at least one
\* and at most retry_count + 1 (2) sends; each send that fails with a
\* connection reset, a broken pipe or an attribute error is followed at once
\* by a close of the transport; the call returns. Afterwards the state is
\* "off" exactly when the last send ended in an OSError and "on" otherwise,
\* also after a WebSocket timeout and after every attempt failed with a
\* reset, broken pipe or attribute error.
C27_SendAttemptsAndState ==
    (tv_last.name \in SingleSendOps /\ ~CooldownAtEntry) =>
        /\ Cardinality(SendIndexes(tv_last.calls)) \in 1..(DefaultRetryCount + 1)
        /\ \A i \in SendIndexes(tv_last.calls) :
              tv_last.calls[i][3] \in RetryKinds =>
                  /\ i < Len(tv_last.calls)
                  /\ tv_last.calls[i + 1] = Call("close", <<>>, "ok")
        /\ \A i \in SendIndexes(tv_last.calls) :
              (\E j \in SendIndexes(tv_last.calls) : j > i) =>
                  tv_last.calls[i][3] \in RetryKinds
        /\ tv_last.returns = <<TRUE>>
        /\ tv_last.raised = "none"
        /\ (tv_state = Some(STATE_OFF) <=> LastSendOutcome = OSError)
        /\ (LastSendOutcome # OSError => tv_state = Some(STATE_ON))

C27_Witness ==
    /\ tv_last.name = "media_next_track"
    /\ ~CooldownAtEntry
    /\ Len(tv_last.calls) = 4
    /\ tv_last.calls[1][3] = "BrokenPipeError"
    /\ tv_last.calls[2] = Call("close", <<>>, "ok")
    /\ tv_last.calls[3][3] = "BrokenPipeError"
    /\ tv_last.calls[4] = Call("close", <<>>, "ok")
    /\ tv_state = Some(STATE_ON)

(***************************************************************************)
(*        The androidtv platform: setup_platform and its service           *)
(***************************************************************************)

PlatformNotReady == "PlatformNotReady"

\* The platform configurations setup_platform is called with: the host
\* (config[CONF_HOST]:config[CONF_PORT]), whether an ADB server is named, and
\* the device class.  Two of them name the same host.
PlatformConfigs ==
    {[host |-> "tv1:5555", adb_server_ip |-> FALSE, device_class |-> DEVICE_ANDROIDTV],
     [host |-> "tv1:5555", adb_server_ip |-> TRUE, device_class |-> DEVICE_FIRETV],
     [host |-> "tv2:5555", adb_server_ip |-> TRUE, device_class |-> DEVICE_FIRETV],
     [host |-> "tv3:5555", adb_server_ip |-> FALSE, device_class |-> DEVICE_FIRETV]}

Hosts == {cfg.host : cfg \in PlatformConfigs}

\* The entity id the device of a host is given when it is added.
entity_id_of(host) == <<"media_player.", host>>

\* The device setup_platform creates (lines 201-220): the fields of ADBDevice
\* that the service looks at.
Device(cfg) ==
    [host |-> cfg.host, entity_id |-> entity_id_of(cfg.host),
     adb_server_ip |-> cfg.adb_server_ip, device_class |-> cfg.device_class,
     available |-> TRUE, adb_response |-> None]

\* host in hass.data[ANDROIDTV_DOMAIN]
HasDevice(d, host) == \E i \in 1..Len(d) : d[i].host = host

\* setup_platform creating a device whether or not the host has one.
setup_platform_always_adds(cfg, reachable) ==
    IF ~reachable
    THEN [data |-> data, added |-> added, has_service |-> has_service,
          raised |-> PlatformNotReady]
    ELSE [data |-> Append(data, Device(cfg)), added |-> Append(added, cfg.host),
          has_service |-> TRUE, raised |-> "none"]

\* setup_platform (lines 132-256) for the configuration cfg, `reachable`
\* being aftv.available after setup().
setup_platform(cfg, reachable) ==
    IF ~reachable
    THEN [data |-> data, added |-> added, has_service |-> has_service,
          raised |-> PlatformNotReady]
    ELSE IF HasDevice(data, cfg.host)
    THEN [data |-> data, added |-> added, has_service |-> TRUE, raised |-> "none"]
    ELSE [data |-> Append(data, Device(cfg)), added |-> Append(added, cfg.host),
          has_service |-> TRUE, raised |-> "none"]

Platform_setup_platform ==
    /\ \E cfg \in PlatformConfigs, reachable \in BOOLEAN :
        \E r \in {setup_platform(cfg, reachable)} :
            /\ data' = r.data
            /\ added' = r.added
            /\ has_service' = r.has_service
            /\ platform_last' = [name |-> "setup_platform",
                                 arg |-> Some(<<cfg, reachable>>),
                                 raised |-> r.raised, log |-> <<>>]
    /\ UNCHANGED <<adbVars, tvVars>>

\* self.exceptions of a device, by its connection mode (lines 316-330).
device_exceptions(dev) ==
    IF ~dev.adb_server_ip THEN PythonAdbExceptions ELSE AdbServerExceptions

\* What the body of adb_command (lines 447-466) does on a device: its
\* transport call, the exception that leaves it, the response it stores and
\* the value it returns.
device_command_body(dev, cmd, out, response, props) ==
    IF cmd \in DOMAIN KEYS
    THEN [calls |-> <<Call("adb_shell", <<"input keyevent ">> \o KEYS[cmd], out)>>,
          exc |-> IF out = "ok" THEN "none" ELSE out,
          adb_response |-> IF out = "ok" THEN None ELSE dev.adb_response,
          result |-> None]
    ELSE IF cmd = <<"GET_PROPERTIES">>
    THEN [calls |-> <<Call("get_properties_dict", <<>>, out)>>,
          exc |-> IF out = "ok" THEN "none" ELSE out,
          adb_response |-> IF out = "ok" THEN Some(PyStr(props)) ELSE dev.adb_response,
          result |-> IF out = "ok" THEN Some(PyStr(props)) ELSE None]
    ELSE LET r == IF ~IsNone(response) /\ strip(Val(response)) # <<>>
                  THEN Some(strip(Val(response)))
                  ELSE None
         IN  [calls |-> <<Call("adb_shell", cmd, out)>>,
              exc |-> IF out = "ok" THEN "none" ELSE out,
              adb_response |-> IF out = "ok" THEN r ELSE dev.adb_response,
              result |-> IF out = "ok" THEN r ELSE None]

\* target_device.adb_command(cmd) (line 240), through _adb_exception_catcher
\* (lines 270-285).
device_adb_command(dev, cmd, out, response, props) ==
    IF ~dev.available
    THEN [dev |-> dev, calls |-> <<>>, result |-> None, raised |-> "none"]
    ELSE LET body == device_command_body(dev, cmd, out, response, props)
         IN  IF body.exc \in device_exceptions(dev)
             THEN [dev |-> [dev EXCEPT !.available = FALSE],
                   calls |-> Append(body.calls, Call("adb_close", <<>>, "ok")),
                   result |-> None, raised |-> "none"]
             ELSE IF body.exc # "none"
             THEN [dev |-> dev, calls |-> body.calls, result |-> None, raised |-> body.exc]
             ELSE [dev |-> [dev EXCEPT !.adb_response = body.adb_response],
                   calls |-> body.calls, result |-> body.result, raised |-> "none"]

\* [dev for dev in hass.data[ANDROIDTV_DOMAIN].values()
\*  if dev.entity_id in entity_id] (lines 233-237), as positions in data.
target_devices(d, entity_id) ==
    SelectSeq([i \in 1..Len(d) |-> i], LAMBDA i : d[i].entity_id \in entity_id)

\* The loop of service_adb_command giving up the remaining targets when a
\* target fails or is unavailable.
RECURSIVE service_loop_stops_at_failure(_, _, _, _, _, _, _)
service_loop_stops_at_failure(d, targets, cmd, outs, response, props, log) ==
    IF targets = <<>> THEN [data |-> d, log |-> log, raised |-> "none"]
    ELSE LET i == Head(targets)
             r == device_adb_command(d[i], cmd, outs[d[i].host], response, props)
             d1 == [d EXCEPT ![i] = r.dev]
             log1 == Append(log, [host |-> d[i].host, calls |-> r.calls,
                                  result |-> r.result])
         IN  IF r.raised # "none" \/ ~r.dev.available
             THEN [data |-> d1, log |-> log1, raised |-> r.raised]
             ELSE service_loop_stops_at_failure(d1, Tail(targets), cmd, outs, response,
                                                props, log1)

\* The loop of service_adb_command (lines 239-249): adb_command is called on
\* the targets in turn; an exception that leaves it ends the service call.
RECURSIVE service_loop(_, _, _, _, _, _, _)
service_loop(d, targets, cmd, outs, response, props, log) ==
    IF targets = <<>> THEN [data |-> d, log |-> log, raised |-> "none"]
    ELSE LET i == Head(targets)
             r == device_adb_command(d[i], cmd, outs[d[i].host], response, props)
             d1 == [d EXCEPT ![i] = r.dev]
             log1 == Append(log, [host |-> d[i].host, calls |-> r.calls,
                                  result |-> r.result])
         IN  IF r.raised # "none"
             THEN [data |-> d1, log |-> log1, raised |-> r.raised]
             ELSE service_loop(d1, Tail(targets), cmd, outs, response, props, log1)

\* The commands, target lists, transport outcomes (one for each host) and
\* shell responses the service is called with.
ServiceCommands == {<<"HOME">>, <<"KEY_FOO">>}
ServiceTargets ==
    {{entity_id_of(h) : h \in Hosts},
     {entity_id_of("tv1:5555"), entity_id_of("tv3:5555")},
     {entity_id_of("tv2:5555"), <<"media_player.", "other">>},
     {}}
ServiceOutcomes == [Hosts -> Outcomes]
ServiceResponses == {Some(<<" ", "out", "\n">>)}

\* A call of the androidtv.adb_command service (lines 229-249).
Platform_service_adb_command ==
    /\ has_service
    /\ \E cmd \in ServiceCommands, entity_id \in ServiceTargets,
          outs \in ServiceOutcomes, response \in ServiceResponses,
          props \in PropertyDicts :
        \E r \in {service_loop(data, target_devices(data, entity_id), cmd, outs,
                               response, props, <<>>)} :
            /\ data' = r.data
            /\ platform_last' = [name |-> "service_adb_command",
                                 arg |-> Some(<<cmd, entity_id>>),
                                 raised |-> r.raised, log |-> r.log]
    /\ UNCHANGED <<added, has_service, adbVars, tvVars>>

PlatformInit ==
    /\ NoPlatform
    /\ NoAdbDevice
    /\ NoSamsungDevice

PlatformNext ==
    \/ Platform_setup_platform
    \/ Platform_service_adb_command

SpecPlatform == PlatformInit /\ [][PlatformNext]_vars

(************************** properties: platform ***************************)

\* The hosts of the devices of hass.data, in order.
DataHosts == [i \in 1..Len(data) |-> data[i].host]

\* The last platform operation was setup_platform, for this configuration
\* and with the device reachable or not.
SetupCfg(l) == Val(l.arg)[1]
SetupReachable(l) == Val(l.arg)[2]

\* C21: setup_platform with the device unreachable raises PlatformNotReady
\* and registers no device; setup_platform for a host that has a device
\* creates no other; so each host has at most one device, the one given to
\* add_entities for it, after any sequence of setup calls.
C21_OneDevicePerHost ==
    /\ [](/\ \A i, j \in 1..Len(data) : data[i].host = data[j].host => i = j
          /\ added = DataHosts
          /\ (platform_last.name = "setup_platform" =>
                /\ (platform_last.raised = PlatformNotReady) = ~SetupReachable(platform_last)
                /\ (SetupReachable(platform_last) =>
                       HasDevice(data, SetupCfg(platform_last).host))))
    /\ [][(/\ platform_last'.name = "setup_platform"
           /\ \/ ~SetupReachable(platform_last')
              \/ HasDevice(data, SetupCfg(platform_last').host))
          => (data' = data /\ added' = added)]_vars

C21_Witness ==
    /\ platform_last.name = "setup_platform"
    /\ SetupReachable(platform_last)
    /\ SetupCfg(platform_last).host = "tv1:5555"
    /\ SetupCfg(platform_last).adb_server_ip
    /\ platform_last.raised = "none"
    /\ added = <<"tv1:5555">>
    /\ data = <<Device([host |-> "tv1:5555", adb_server_ip |-> FALSE,
                        device_class |-> DEVICE_ANDROIDTV])>>

\* The last platform operation was a call of the service.
ServiceCalled == platform_last.name = "service_adb_command"

\* The hosts adb_command was called on by the last service call, in order,
\* and the hosts of the devices it names, in the order of hass.data.
LogHosts == [i \in 1..Len(platform_last.log) |-> platform_last.log[i].host]
TargetHosts ==
    LET targets == target_devices(data, Val(platform_last.arg)[2])
    IN  [i \in 1..Len(targets) |-> data[targets[i]].host]

\* The device of a host.
DeviceOf(host) == data[CHOOSE i \in 1..Len(data) : data[i].host = host]

\* The transport call of log entry e raised an exception kind that its
\* device does not intercept.
EscapingFailure(e) ==
    /\ e.calls # <<>>
    /\ e.calls[1][3] # "ok"
    /\ e.calls[1][3] \notin device_exceptions(DeviceOf(e.host))

\* C22 as stated: a service call calls adb_command on every device named in
\* the target list and on no other, whatever happens on any of them.
C22_Original_EveryTargetDispatched ==
    ServiceCalled => LogHosts = TargetHosts

\* C22 (amended): a service call calls adb_command on the devices named in
\* the target list, in the order of hass.data, and on no other; a target
\* that is unavailable (no transport call is made for it) or whose transport
\* call fails with an exception kind the adapter intercepts (the transport
\* is closed) does not stop the dispatch; a transport failure of a kind the
\* adapter does not intercept leaves the service call, and the targets after
\* that one are not dispatched to.
C22_DispatchUntilEscapingFailure ==
    ServiceCalled =>
        /\ Len(LogHosts) <= Len(TargetHosts)
        /\ LogHosts = SubSeq(TargetHosts, 1, Len(LogHosts))
        /\ (platform_last.raised = "none" => LogHosts = TargetHosts)
        /\ \A i \in 1..Len(platform_last.log) :
            /\ EscapingFailure(platform_last.log[i]) =>
                  /\ i = Len(platform_last.log)
                  /\ platform_last.raised = platform_last.log[i].calls[1][3]
            /\ Len(platform_last.log[i].calls) <= 2
            /\ (Len(platform_last.log[i].calls) = 2 =>
                  /\ platform_last.log[i].calls[1][3] \in
                        device_exceptions(DeviceOf(platform_last.log[i].host))
                  /\ platform_last.log[i].calls[2][1] = "adb_close"
                  /\ ~DeviceOf(platform_last.log[i].host).available)
            /\ (platform_last.log[i].calls = <<>> =>
                  ~DeviceOf(platform_last.log[i].host).available)
        /\ (platform_last.raised # "none" =>
              /\ platform_last.log # <<>>
              /\ EscapingFailure(platform_last.log[Len(platform_last.log)]))

C22_Witness ==
    /\ ServiceCalled
    /\ platform_last.raised = "none"
    /\ Len(platform_last.log) = 3
    /\ platform_last.log[1].calls = <<>>
    /\ Len(platform_last.log[2].calls) = 2
    /\ platform_last.log[2].calls[2][1] = "adb_close"
    /\ Len(platform_last.log[3].calls) = 1
    /\ platform_last.log[3].calls[1][3] = "ok"
    /\ platform_last.log[3].result = Some(<<"out">>)

====
